---------------------------- MODULE Spec2Model ----------------------------
(***************************************************************************)
(* ulc-codec encoder core.                                                 *)
(*                                                                         *)
(*  Spec     : Block_Encode (the nybble serializer), one step per code     *)
(*             written, over bounded key sets / quantizer sets.            *)
(*  SpecWin  : Block_Transform_GetWindowCtrl (descent, overlap selection,  *)
(*             packing of the window control word) followed by the         *)
(*             per-sub-block loop of                                       *)
(*             Block_Transform_CalculatePsychoacoustics.                   *)
(*  SpecPat  : the per-sub-block loop over every decimation code.          *)
(*  SpecCtrl : SpecWin together with the older variant of                  *)
(*             Block_Transform_GetWindowCtrl (MinOverlap, MaxOverlap).     *)
(***************************************************************************)
EXTENDS Integers, Sequences, FiniteSets, TLC

VARIABLES
    \* ---- Block_Encode: inputs (State, Keys after sorting) ----
    nChan,            \* State->nChan
    BlockSize,        \* State->BlockSize
    QuantsBw,         \* State->QuantsBw[0..nQuants-1] (1-based sequence)
    Quants,           \* State->Quants[Chan][QBand]   (1-based sequences)
    Keys,             \* State->AnalysisKeys[0..nNzBands-1], sorted
    TransformBuffer,  \* State->TransformBuffer, as a periodic tile
    DstGarbage,       \* what an untouched byte of DstBuffer holds
    \* ---- Block_Encode: locals ----
    pc, Chan, QBand, Key, Size, nNzCoded,
    NextNz, LastNz, NxtQuantBand, CurQuantBand, CurQuantEnd, tBand, zR,
    DstBuffer,        \* the bytes of the destination touched so far
    Dst,              \* index of the byte DstBuffer points at
    \* ---- Block_Encode: history ----
    nybbles,          \* arguments (low 4 bits) of the WriteNybble calls
    lastCode,         \* the code written by the last step
    \* ---- window control ----
    wpc, wBlockSize, Decimation, SubBlockSize, AnalysisLen, TransientData,
    nSteps, OverlapScale, WindowCtrl,
    DecimationPattern, SubBlocks, Offset,
    \* ---- window control, older variant ----
    SegmentSize, RatioBuffer, MinOverlap, MaxOverlap,
    \* ---- Block_Transform_InsertKeys ----
    ipc,
    InsBlockSize,     \* BlockSize
    InsChan,          \* Chan
    InsCoefLog2,      \* log2 |Src[Band] * 2.0f/BlockSize|, per band
    InsBand,          \* Band
    InsQBand,         \* QBand
    QBandAvgW,        \* sign of QBandAvgW: 0, or 1 when positive
    nKeys,            \* *nKeys
    InsKey,           \* Keys[*nKeys - 1], the key stored last
    insStep,          \* what the last loop pass did
    \* ---- Block_Encode_EncodePass_GetNoiseQ / _GetHFExtParams ----
    npc,
    NoiseData,        \* Data[], as {Weight, Weight*Value} pairs
    NoiseBand,        \* Band
    NoiseN,           \* N
    ampKind,          \* kind of the float handed to the amplitude quantizer
    NoiseQ,           \* the value returned / *_NoiseQ
    NoiseDecay,       \* *_NoiseDecay
    \* ---- window control carried from block to block ----
    StateWindowCtrl,  \* State->WindowCtrl
    NextWindowCtrl,   \* State->NextWindowCtrl
    RightOverlap,     \* overlap chosen for the right transition of the last block
    LeftOverlap,      \* overlap applied on the left side of this block
    \* ---- sliding analysis windows ----
    spc,
    sRate,            \* RateHz
    sSize,            \* SubBlockSize, or N after N /= 2
    sData,            \* which energy spectrum is analysed
    sBand,            \* n
    MainWin,          \* BandBeg, BandEnd, SumW, Sum
    NoiseWin,         \* NoiseBeg, NoiseEnd, NoiseSum
    MaskWin,          \* NoiseBeg, NoiseEnd, MaskSumW, MaskSum, FloorSum
    FloorBw,          \* int FloorBw
    \* ---- ULC_CompandedQuantizeUnsigned on its own ----
    qpc,
    quantV,           \* float v
    quantRet,         \* the int returned
    \* ---- Block_Transform_GetWindowCtrl_TransientFiltering ----
    fpc,
    fBlock,           \* blocks filtered so far
    FiltSize,         \* BlockSize
    FiltData,         \* Data, one channel
    LastBlockData,
    TransientWindow,
    SmoothingTaps,
    StepBuffer,
    fEnergy           \* history: the energy samples of every block so far

encVars == <<nChan, BlockSize, QuantsBw, Quants, Keys, TransformBuffer,
             DstGarbage, pc, Chan, QBand, Key, Size, nNzCoded, NextNz,
             LastNz, NxtQuantBand, CurQuantBand, CurQuantEnd, tBand, zR,
             DstBuffer, Dst, nybbles, lastCode>>

winVars == <<wpc, wBlockSize, Decimation, SubBlockSize, AnalysisLen,
             TransientData, nSteps, OverlapScale, WindowCtrl,
             DecimationPattern, SubBlocks, Offset,
             SegmentSize, RatioBuffer, MinOverlap, MaxOverlap>>

oldVars == <<SegmentSize, RatioBuffer, MinOverlap, MaxOverlap>>

insVars == <<ipc, InsBlockSize, InsChan, InsCoefLog2, InsBand, InsQBand,
             QBandAvgW, nKeys, InsKey, insStep>>

noiseVars == <<npc, NoiseData, NoiseBand, NoiseN, ampKind, NoiseQ, NoiseDecay>>

seqVars == <<StateWindowCtrl, NextWindowCtrl, RightOverlap, LeftOverlap>>

slideVars == <<spc, sRate, sSize, sData, sBand, MainWin, NoiseWin, MaskWin,
               FloorBw>>

quantVars == <<qpc, quantV, quantRet>>

filtVars == <<fpc, fBlock, FiltSize, FiltData, LastBlockData,
              TransientWindow, SmoothingTaps, StepBuffer, fEnergy>>

extVars == <<slideVars, quantVars, filtVars>>

auxVars == <<insVars, noiseVars, seqVars, extVars>>

vars == <<encVars, winVars, auxVars>>

(***************************************************************************)
(* Bounds of the model                                                     *)
(***************************************************************************)
MaxChan == 2
MaxKeys == 3
SmallLog2 == 4
LargeLog2 == 8
MaxBands == 52
MaxAmp4 == 1200
MaxNoiseN == 3

(***************************************************************************)
(* Arithmetic helpers                                                      *)
(***************************************************************************)
RECURSIVE Pow2(_)
Pow2(n) == IF n = 0 THEN 1 ELSE 2 * Pow2(n - 1)

Shr(x, n) == x \div Pow2(n)

RECURSIVE IntLog2(_)
IntLog2(x) == IF x <= 1 THEN 0 ELSE 1 + IntLog2(x \div 2)

RECURSIVE SumSeq(_)
SumSeq(s) == IF s = <<>> THEN 0 ELSE Head(s) + SumSeq(Tail(s))

Min(S) == CHOOSE x \in S : \A y \in S : x <= y

RECURSIVE SortedSeq(_)
SortedSeq(S) == IF S = {} THEN <<>> ELSE <<Min(S)>> \o SortedSeq(S \ {Min(S)})

QUANTIZER_UNUSED == 32768

nQuants == Len(QuantsBw)
nNzBands == Len(Keys)

\* Keys[k].Key packs the channel above the band index
KeyOf(ch, band) == ch * BlockSize + band
KeyBand(k) == k % BlockSize
KeyChan(k) == Shr(k, IntLog2(BlockSize))

\* TransformBuffer[Chan][n]
Coef(ch, n) == TransformBuffer[((n + 3 * ch) % Len(TransformBuffer)) + 1]

\* (int32_t)round(a / q), q > 0: halves round away from zero
RoundDiv(a, q) == IF a >= 0 THEN (2 * a + q) \div (2 * q)
                  ELSE -((2 * (-a) + q) \div (2 * q))

Quantize_Clamp8(a, q) ==
    LET Qn == RoundDiv(a, q)
    IN  IF Qn < -8 THEN -8 ELSE IF Qn > 7 THEN 7 ELSE Qn

\* Qn = round(...); if(Qn < -7) Qn = -7; if(Qn > +7) Qn = +7;
Quantize(a, q) ==
    LET Qn == RoundDiv(a, q)
    IN  IF Qn < -7 THEN -7 ELSE IF Qn > 7 THEN 7 ELSE Qn

(***************************************************************************)
(* Block_Encode_WriteNybble on w = [buf, dst, size, nyb]                   *)
(***************************************************************************)
ToUint8(x) == x % 256

ByteAt(buf, k) == IF k < Len(buf) THEN buf[k + 1] ELSE DstGarbage

\* *Size += 4
SizeStep_Bytes(size) == size + 32

SizeStep_Count(size) == size + 1

SizeStep(size) == size + 4

\* *(*Dst) >>= 4; *(*Dst) |= x << 4
PushNybble_HighFirst(byte, x) == ((byte * 16) % 256) + (ToUint8(x) % 16)

PushNybble(byte, x) == (byte \div 16) + ((ToUint8(x) * 16) % 256)

WriteNybble(x, w) ==
    LET b    == PushNybble(ByteAt(w.buf, w.dst), x)
        buf2 == IF w.dst < Len(w.buf) THEN [w.buf EXCEPT ![w.dst + 1] = b]
                ELSE Append(w.buf, b)
        sz   == SizeStep(w.size)
    IN  [buf  |-> buf2,
         dst  |-> IF sz % 8 = 0 THEN w.dst + 1 ELSE w.dst,
         size |-> sz,
         nyb  |-> Append(w.nyb, ToUint8(x) % 16)]

W0 == [buf |-> DstBuffer, dst |-> Dst, size |-> Size, nyb |-> nybbles]

Commit(w) ==
    /\ DstBuffer' = w.buf
    /\ Dst' = w.dst
    /\ Size' = w.size
    /\ nybbles' = w.nyb

Code(kind, qn, len, n) == [kind |-> kind, Qn |-> qn, len |-> len, n |-> n]

(***************************************************************************)
(* Inputs of Block_Encode                                                  *)
(***************************************************************************)
BandLayouts(N) == { <<N>>, <<N \div 8, N \div 8, N \div 4, N \div 2>> }

KeyCandidates(N) == {0, 3, N \div 8 + 1, N \div 4 + 2, N - 1}

\* (quantizers of the coded bands, coefficient tile, untouched destination)
InputProfiles ==
    { [q |-> <<1, 2, 4, 8>>,     t |-> <<0, 7, -1, 1000, -8, 1, 60, -60>>,
       g |-> 0],
      [q |-> <<1, 2, 4, 8>>,     t |-> <<0, 7, -1, 1000, -8, 1, 60, -60>>,
       g |-> 165],
      [q |-> <<16384, 8, 1, 2>>, t |-> <<-1000, 3, 0, -7, 8, -1, -60, 15>>,
       g |-> 255] }

\* first coefficient of quantizer band b (1-based), and the band of position n
BandStart(bw, b) == SumSeq(SubSeq(bw, 1, b - 1))
BandOf(bw, n) ==
    CHOOSE b \in 1..Len(bw) : BandStart(bw, b) <= n /\ n < BandStart(bw, b + 1)

\* Block_Encode_BuildQuants: a quantizer band is coded iff it holds a key
BuildQuants(bw, q, bands) ==
    [b \in 1..Len(bw) |->
        IF \E n \in bands : BandOf(bw, n) = b THEN q[b] ELSE QUANTIZER_UNUSED]

\* one key set per channel: MaxKeys keys in all, or the first coefficient
\* of channel 0 and one more at any distance
KeySets(N, C) ==
    { ks \in [0..(C - 1) -> SUBSET KeyCandidates(N)] :
        SumSeq([i \in 1..C |-> Cardinality(ks[i - 1])]) <= MaxKeys }
    \cup { [c \in 0..(C - 1) |-> IF c = 0 THEN {0, b} ELSE {}] : b \in 1..(N - 1) }

EncInit ==
    /\ nChan \in 1..MaxChan
    /\ BlockSize \in {Pow2(SmallLog2), Pow2(LargeLog2)}
    /\ QuantsBw \in BandLayouts(BlockSize)
    /\ \E ks \in KeySets(BlockSize, nChan), p \in InputProfiles :
          /\ Keys = SortedSeq(UNION {{KeyOf(c, n) : n \in ks[c]} : c \in 0..(nChan - 1)})
          /\ Quants = [c \in 0..(nChan - 1) |-> BuildQuants(QuantsBw, p.q, ks[c])]
          /\ TransformBuffer = p.t
          /\ DstGarbage = p.g
    /\ pc = "quants"
    /\ Chan = 0 /\ QBand = 0 /\ Key = 0 /\ Size = 0 /\ nNzCoded = 0
    /\ NextNz = 0 /\ LastNz = 0 /\ NxtQuantBand = 0
    /\ CurQuantBand = 0 /\ CurQuantEnd = 0 /\ tBand = 0 /\ zR = 0
    /\ DstBuffer = <<>> /\ Dst = 0
    /\ nybbles = <<>>
    /\ lastCode = Code("none", 0, 0, 0)

EncIdle ==
    /\ nChan = 0 /\ BlockSize = 0 /\ QuantsBw = <<>> /\ Quants = <<>>
    /\ Keys = <<>> /\ TransformBuffer = <<>> /\ DstGarbage = 0
    /\ pc = "idle"
    /\ Chan = 0 /\ QBand = 0 /\ Key = 0 /\ Size = 0 /\ nNzCoded = 0
    /\ NextNz = 0 /\ LastNz = 0 /\ NxtQuantBand = 0
    /\ CurQuantBand = 0 /\ CurQuantEnd = 0 /\ tBand = 0 /\ zR = 0
    /\ DstBuffer = <<>> /\ Dst = 0
    /\ nybbles = <<>>
    /\ lastCode = Code("none", 0, 0, 0)

inputs == <<nChan, BlockSize, QuantsBw, Quants, Keys, TransformBuffer, DstGarbage>>


(***************************************************************************)
(* Block_Encode                                                            *)
(***************************************************************************)
\* for(QBand...) Block_Encode_WriteNybble(IntLog2(Quants[Chan][QBand]))
WriteQuant ==
    /\ pc = "quants"
    /\ QBand < nQuants
    /\ Commit(WriteNybble(IntLog2(Quants[Chan][QBand + 1]), W0))
    /\ QBand' = QBand + 1
    /\ lastCode' = Code("quant", 0, 0, 1)
    /\ UNCHANGED <<inputs, pc, Chan, Key, nNzCoded, NextNz, LastNz,
                   NxtQuantBand, CurQuantBand, CurQuantEnd, tBand, zR>>

\* end of the quantizer header: LastNz = 0, NxtQuantBand = 0
QuantsDone ==
    /\ pc = "quants"
    /\ QBand >= nQuants
    /\ LastNz' = 0
    /\ NxtQuantBand' = 0
    /\ pc' = "run"
    /\ lastCode' = Code("none", 0, 0, 0)
    /\ UNCHANGED <<inputs, Chan, QBand, Key, Size, nNzCoded, NextNz,
                   CurQuantBand, CurQuantEnd, tBand, zR, DstBuffer, Dst,
                   nybbles>>

\* while(NxtQuantBand < nQuants && Quants[Chan][NxtQuantBand] == UNUSED) ...
RECURSIVE SkipUnused(_, _, _)
SkipUnused(q, nxt, last) ==
    IF nxt < nQuants /\ q[nxt + 1] = QUANTIZER_UNUSED
    THEN SkipUnused(q, nxt + 1, last + QuantsBw[nxt + 1])
    ELSE <<nxt, last>>

\* while(++NxtQuantBand < nQuants && Quants[Chan][NxtQuantBand] != UNUSED) ...
RECURSIVE ExtendUsed(_, _, _)
ExtendUsed(q, nxt, last) ==
    IF nxt + 1 < nQuants /\ q[nxt + 2] # QUANTIZER_UNUSED
    THEN ExtendUsed(q, nxt + 1, last + QuantsBw[nxt + 2])
    ELSE <<nxt + 1, last>>

\* a variant that closes every channel with 8h,0h
ChanDone_WithStop ==
    /\ pc = "run"
    /\ SkipUnused(Quants[Chan], NxtQuantBand, LastNz)[1] >= nQuants
    /\ LET sk == SkipUnused(Quants[Chan], NxtQuantBand, LastNz)
       IN  /\ NxtQuantBand' = sk[1]
           /\ LastNz' = sk[2]
    /\ Commit(WriteNybble(0, WriteNybble(8, W0)))
    /\ Chan' = Chan + 1
    /\ IF Chan + 1 < nChan
       THEN pc' = "quants" /\ QBand' = 0
       ELSE pc' = "final" /\ QBand' = QBand
    /\ lastCode' = Code("stop", 0, 0, 2)
    /\ UNCHANGED <<inputs, Key, nNzCoded, NextNz, CurQuantBand,
                   CurQuantEnd, tBand, zR>>

\* no coded quantizer band left in this channel: next channel, or finish
ChanDone ==
    /\ pc = "run"
    /\ SkipUnused(Quants[Chan], NxtQuantBand, LastNz)[1] >= nQuants
    /\ LET sk == SkipUnused(Quants[Chan], NxtQuantBand, LastNz)
       IN  /\ NxtQuantBand' = sk[1]
           /\ LastNz' = sk[2]
    /\ Chan' = Chan + 1
    /\ IF Chan + 1 < nChan
       THEN pc' = "quants" /\ QBand' = 0
       ELSE pc' = "final" /\ QBand' = QBand
    /\ lastCode' = Code("none", 0, 0, 0)
    /\ UNCHANGED <<inputs, Key, Size, nNzCoded, NextNz, CurQuantBand,
                   CurQuantEnd, tBand, zR, DstBuffer, Dst, nybbles>>

\* limits of the next run of consecutive coded quantizer bands
RunStart ==
    /\ pc = "run"
    /\ SkipUnused(Quants[Chan], NxtQuantBand, LastNz)[1] < nQuants
    /\ LET sk  == SkipUnused(Quants[Chan], NxtQuantBand, LastNz)
           end == sk[2] + QuantsBw[sk[1] + 1]
           ex  == ExtendUsed(Quants[Chan], sk[1], end)
       IN  /\ NextNz' = sk[2]
           /\ CurQuantBand' = sk[1]
           /\ CurQuantEnd' = end
           /\ NxtQuantBand' = ex[1]
           /\ LastNz' = ex[2]
    /\ pc' = "key"
    /\ lastCode' = Code("none", 0, 0, 0)
    /\ UNCHANGED <<inputs, Chan, QBand, Key, Size, nNzCoded, tBand, zR,
                   DstBuffer, Dst, nybbles>>

\* unpack Keys[Key]; leave the run on the next run's or channel's key
ReadKey ==
    /\ pc = "key"
    /\ LET b == KeyBand(Keys[Key + 1])
           c == KeyChan(Keys[Key + 1])
       IN  /\ tBand' = b
           /\ IF b >= LastNz \/ c # Chan
              THEN pc' = "stop" /\ zR' = zR
              ELSE /\ zR' = b - NextNz
                   /\ pc' = IF b - NextNz >= 4 THEN "zrun" ELSE "coef"
    /\ lastCode' = Code("none", 0, 0, 0)
    /\ UNCHANGED <<inputs, Chan, QBand, Key, Size, nNzCoded, NextNz, LastNz,
                   NxtQuantBand, CurQuantBand, CurQuantEnd, DstBuffer, Dst,
                   nybbles>>

\* if(n > 0x3F) n = 0x3F
LongRunMax_Unclamped(n) == n

LongRunMax(n) == IF n > 63 THEN 63 ELSE n

\* n = (n-2)/2
ShortRun_RoundUp(z) == (z - 1) \div 2

ShortRun(z) == (z - 2) \div 2

\* one pass of while(zR >= 4): 8h,1h..Bh or 8h,Ch..Fh,Xh
ZeroRun ==
    /\ pc = "zrun"
    /\ zR >= 4
    /\ IF zR < 26
       THEN LET n == ShortRun(zR)
                w == WriteNybble(n, WriteNybble(8, W0))
                z == n * 2 + 2
            IN  /\ Commit(w)
                /\ NextNz' = NextNz + z
                /\ zR' = zR - z
                /\ pc' = IF zR - z >= 4 THEN "zrun" ELSE "coef"
                /\ lastCode' = Code("zrun", 0, z, 2)
       ELSE LET n == LongRunMax((zR - 26) \div 2)
                w == WriteNybble(n % 16,
                        WriteNybble(12 + Shr(n, 4), WriteNybble(8, W0)))
                z == n * 2 + 26
            IN  /\ Commit(w)
                /\ NextNz' = NextNz + z
                /\ zR' = zR - z
                /\ pc' = IF zR - z >= 4 THEN "zrun" ELSE "coef"
                /\ lastCode' = Code("zrun", 0, z, 3)
    /\ UNCHANGED <<inputs, Chan, QBand, Key, nNzCoded, LastNz, NxtQuantBand,
                   CurQuantBand, CurQuantEnd, tBand>>

\* while(++Key < nNzBands)
MoreKeys_Inclusive(k) == k <= nNzBands

MoreKeys(k) == k < nNzBands

\* if(NextNz >= CurQuantEnd)
CrossedBand_Late(n, end) == n > end

CrossedBand(n, end) == n >= end

\* one pass of do { ... } while(++NextNz <= tBand), then while(++Key < nNzBands)
CodeCoef ==
    /\ pc = "coef"
    /\ LET cross == CrossedBand(NextNz, CurQuantEnd)
           band  == IF cross THEN CurQuantBand + 1 ELSE CurQuantBand
           Qn    == Quantize(Coef(Chan, NextNz), Quants[Chan][band + 1])
       IN  /\ CurQuantBand' = band
           /\ CurQuantEnd' = IF cross THEN CurQuantEnd + QuantsBw[band + 1]
                             ELSE CurQuantEnd
           /\ Commit(WriteNybble(Qn, W0))
           /\ nNzCoded' = IF Qn # 0 THEN nNzCoded + 1 ELSE nNzCoded
           /\ lastCode' = Code("coef", Qn, 1, 1)
    /\ NextNz' = NextNz + 1
    /\ IF NextNz + 1 <= tBand
       THEN pc' = "coef" /\ Key' = Key
       ELSE /\ Key' = Key + 1
            /\ pc' = IF MoreKeys(Key + 1) THEN "key" ELSE "stop"
    /\ UNCHANGED <<inputs, Chan, QBand, LastNz, NxtQuantBand, tBand, zR>>

\* a variant that writes 8h,0h for every run that stops short of its end
EndRun_StopAtOne ==
    /\ pc = "stop"
    /\ LET n == LastNz - NextNz
       IN  IF n >= 1
           THEN /\ Commit(WriteNybble(0, WriteNybble(8, W0)))
                /\ lastCode' = Code("stop", 0, n, 2)
           ELSE /\ UNCHANGED <<DstBuffer, Dst, Size, nybbles>>
                /\ lastCode' = Code("stop", 0, n, 0)
    /\ pc' = "run"
    /\ UNCHANGED <<inputs, Chan, QBand, Key, nNzCoded, NextNz, LastNz,
                   NxtQuantBand, CurQuantBand, CurQuantEnd, tBand, zR>>

\* close the run: nothing, 0h, or 8h,0h
EndRun ==
    /\ pc = "stop"
    /\ LET n == LastNz - NextNz
       IN  IF n = 1
           THEN /\ Commit(WriteNybble(0, W0))
                /\ lastCode' = Code("stop", 0, n, 1)
           ELSE IF n >= 2
           THEN /\ Commit(WriteNybble(0, WriteNybble(8, W0)))
                /\ lastCode' = Code("stop", 0, n, 2)
           ELSE /\ UNCHANGED <<DstBuffer, Dst, Size, nybbles>>
                /\ lastCode' = Code("stop", 0, n, 0)
    /\ pc' = "run"
    /\ UNCHANGED <<inputs, Chan, QBand, Key, nNzCoded, NextNz, LastNz,
                   NxtQuantBand, CurQuantBand, CurQuantEnd, tBand, zR>>

\* a variant that leaves the final byte as the last WriteNybble left it
ShiftDownFinalByte_Skip(buf, dst, size) == buf

\* if(Size % 8u) *DstBuffer >>= 4
ShiftDownFinalByte(buf, dst, size) ==
    IF size % 8 # 0 THEN [buf EXCEPT ![dst + 1] = ByteAt(buf, dst) \div 16]
    ELSE buf

Finish ==
    /\ pc = "final"
    /\ DstBuffer' = ShiftDownFinalByte(DstBuffer, Dst, Size)
    /\ pc' = "done"
    /\ lastCode' = Code("none", 0, 0, 0)
    /\ UNCHANGED <<inputs, Chan, QBand, Key, Size, nNzCoded, NextNz, LastNz,
                   NxtQuantBand, CurQuantBand, CurQuantEnd, tBand, zR, Dst,
                   nybbles>>

EncNext ==
    \/ WriteQuant
    \/ QuantsDone
    \/ ChanDone
    \/ RunStart
    \/ ReadKey
    \/ ZeroRun
    \/ CodeCoef
    \/ EndRun
    \/ Finish

(***************************************************************************)
(* ULC_SubBlockDecimationPattern                                           *)
(***************************************************************************)
\* Pattern[]: sub-block shifts (hex nybbles, LSB first) | transient flag
Pattern ==
    << 0     + 0,       \* 0000: 0x0000 | 0x0000  N/1 (Unused)
       0     + 8,       \* 0001: 0x0000 | 0x0008  N/1*
       17    + 8,       \* 0010: 0x0011 | 0x0008  N/2*,N/2
       17    + 128,     \* 0011: 0x0011 | 0x0080  N/2,N/2*
       290   + 8,       \* 0100: 0x0122 | 0x0008  N/4*,N/4,N/2
       290   + 128,     \* 0101: 0x0122 | 0x0080  N/4,N/4*,N/2
       545   + 128,     \* 0110: 0x0221 | 0x0080  N/2,N/4*,N/4
       545   + 2048,    \* 0111: 0x0221 | 0x0800  N/2,N/4,N/4*
       4659  + 8,       \* 1000: 0x1233 | 0x0008  N/8*,N/8,N/4,N/2
       4659  + 128,     \* 1001: 0x1233 | 0x0080  N/8,N/8*,N/4,N/2
       4914  + 128,     \* 1010: 0x1332 | 0x0080  N/4,N/8*,N/8,N/2
       4914  + 2048,    \* 1011: 0x1332 | 0x0800  N/4,N/8,N/8*,N/2
       9009  + 128,     \* 1100: 0x2331 | 0x0080  N/2,N/8*,N/8,N/4
       9009  + 2048,    \* 1101: 0x2331 | 0x0800  N/2,N/8,N/8*,N/4
       13089 + 2048,    \* 1110: 0x3321 | 0x0800  N/2,N/4,N/8*,N/8
       13089 + 32768 >> \* 1111: 0x3321 | 0x8000  N/2,N/4,N/8,N/8*

ULC_SubBlockDecimationPattern_LowNybble(ctrl) == Pattern[(ctrl % 16) + 1]

ULC_SubBlockDecimationPattern_BadShift(ctrl) ==
    IF Shr(ctrl, 4) = 5 THEN 274 + 128 ELSE Pattern[Shr(ctrl, 4) + 1]

\* return Pattern[WindowCtrl >> 4]
ULC_SubBlockDecimationPattern_FlippedBit(ctrl) ==
    LET d == Shr(ctrl, 4)
    IN  Pattern[(IF d % 2 = 0 THEN d + 1 ELSE d - 1) + 1]

ULC_SubBlockDecimationPattern(ctrl) == Pattern[Shr(ctrl, 4) + 1]

(***************************************************************************)
(* Block_Transform_GetWindowCtrl                                           *)
(***************************************************************************)
MinBlockLog2 == 8
MaxBlockLog2 == 13
MaxLog2Q == 32

ULC_USE_WINDOW_SWITCHING == 1
ULC_HELPER_SUBBLOCK_INTERLEAVE_MODULO == 8

BlockSizes == { Pow2(k) : k \in MinBlockLog2..MaxBlockLog2 }

WalkIdle == DecimationPattern = 0 /\ SubBlocks = <<>> /\ Offset = 0

OldIdle == SegmentSize = 0 /\ RatioBuffer = 0 /\ MinOverlap = 0 /\ MaxOverlap = 0

\* Decimation = 0b0001, SubBlockSize = BlockSize,
\* AnalysisLen = MODULO, TransientData += AnalysisLen
WinInit ==
    /\ wpc = "descend"
    /\ wBlockSize \in BlockSizes
    /\ Decimation = 1
    /\ SubBlockSize = wBlockSize
    /\ AnalysisLen = ULC_HELPER_SUBBLOCK_INTERLEAVE_MODULO
    /\ TransientData = ULC_HELPER_SUBBLOCK_INTERLEAVE_MODULO
    /\ nSteps = 0
    /\ OverlapScale = 0
    /\ WindowCtrl = 0
    /\ WalkIdle
    /\ OldIdle

CanDecimate_Min32(len, size) ==
    ULC_USE_WINDOW_SWITCHING = 1 /\ len > 1 /\ size > 32

\* "Can we decimate?"
CanDecimate(len, size) ==
    ULC_USE_WINDOW_SWITCHING = 1 /\ len > 1 /\ size > 64

\* a variant that moves TransientData by the halved AnalysisLen
SelectGroup_AfterHalving(data, len, bit) ==
    IF bit = 1 THEN data + len \div 2 ELSE data

\* RatioPos == POS_L: stay; else TransientData += AnalysisLen
SelectGroup(data, len, bit) == IF bit = 1 THEN data + len ELSE data

\* the largest ratio is in L (bit 0) or M (bit 1) and exceeds Log[2]
Decimate ==
    /\ wpc = "descend"
    /\ CanDecimate(AnalysisLen, SubBlockSize)
    /\ \E bit \in {0, 1} :
          /\ Decimation' = 2 * Decimation + bit
          /\ TransientData' = SelectGroup(TransientData, AnalysisLen, bit)
    /\ AnalysisLen' = AnalysisLen \div 2
    /\ SubBlockSize' = SubBlockSize \div 2
    /\ nSteps' = nSteps + 1
    /\ UNCHANGED <<oldVars, wpc, wBlockSize, OverlapScale, WindowCtrl,
                   DecimationPattern, SubBlocks, Offset>>

\* "No more decimation": the ratio is in R, not above Log[2], or
\* decimation is not possible
StopDescent ==
    /\ wpc = "descend"
    /\ wpc' = "overlap"
    /\ UNCHANGED <<oldVars, wBlockSize, Decimation, SubBlockSize, AnalysisLen,
                   TransientData, nSteps, OverlapScale, WindowCtrl,
                   DecimationPattern, SubBlocks, Offset>>

\* OverlapScale from Log2OverlapSamplesScale = x4/4:
\* 0 unless > 0; 7 when >= 6.5; else (int)(x + 0.5)
OverlapScaleOf(x4) ==
    IF x4 > 0 THEN (IF x4 >= 26 THEN 7 ELSE (x4 + 2) \div 4) ELSE 0

SelectOverlap ==
    /\ wpc = "overlap"
    /\ \E x4 \in (-MaxLog2Q)..MaxLog2Q : OverlapScale' = OverlapScaleOf(x4)
    /\ wpc' = "reduce"
    /\ UNCHANGED <<oldVars, wBlockSize, Decimation, SubBlockSize, AnalysisLen,
                   TransientData, nSteps, WindowCtrl, DecimationPattern,
                   SubBlocks, Offset>>

OverlapTooShort_Min8(size, scale) == Shr(size, scale) < 8

\* while((SubBlockSize >> OverlapScale) < 16)
OverlapTooShort(size, scale) == Shr(size, scale) < 16

ReduceOverlap ==
    /\ wpc = "reduce"
    /\ OverlapTooShort(SubBlockSize, OverlapScale)
    /\ OverlapScale' = OverlapScale - 1
    /\ UNCHANGED <<oldVars, wpc, wBlockSize, Decimation, SubBlockSize, AnalysisLen,
                   TransientData, nSteps, WindowCtrl, DecimationPattern,
                   SubBlocks, Offset>>

PackWindowCtrl_Swapped(scale, dec) ==
    16 * (scale + 8 * (IF dec # 1 THEN 1 ELSE 0)) + dec

PackWindowCtrl_FlagNonZero(scale, dec) ==
    scale + 8 * (IF dec # 0 THEN 1 ELSE 0) + 16 * dec

\* return OverlapScale + 0x8*(Decimation != 1) + 0x10*Decimation
PackWindowCtrl(scale, dec) ==
    scale + 8 * (IF dec # 1 THEN 1 ELSE 0) + 16 * dec

Return ==
    /\ wpc = "reduce"
    /\ ~OverlapTooShort(SubBlockSize, OverlapScale)
    /\ WindowCtrl' = PackWindowCtrl(OverlapScale, Decimation)
    /\ wpc' = "ret"
    /\ UNCHANGED <<oldVars, wBlockSize, Decimation, SubBlockSize, AnalysisLen,
                   TransientData, nSteps, OverlapScale, DecimationPattern,
                   SubBlocks, Offset>>

(***************************************************************************)
(* Block_Transform_CalculatePsychoacoustics: the loop over sub-blocks      *)
(***************************************************************************)
\* DecimationPattern = ULC_SubBlockDecimationPattern(WindowCtrl)
StartWalk ==
    /\ wpc = "ret"
    /\ DecimationPattern' = ULC_SubBlockDecimationPattern(WindowCtrl)
    /\ SubBlocks' = <<>>
    /\ Offset' = 0
    /\ wpc' = "walk"
    /\ UNCHANGED <<oldVars, wBlockSize, Decimation, SubBlockSize, AnalysisLen,
                   TransientData, nSteps, OverlapScale, WindowCtrl>>

\* do { SubBlockSize = BlockSize >> (DecimationPattern&0x7); ...
\*      MaskingNp += SubBlockSize; } while(DecimationPattern >>= 4)
WalkSubBlock ==
    /\ wpc = "walk"
    /\ LET shift == DecimationPattern % 8
           size  == Shr(wBlockSize, shift)
       IN  /\ SubBlocks' = Append(SubBlocks,
                  [shift |-> shift, size |-> size, start |-> Offset,
                   transient |-> (DecimationPattern \div 8) % 2])
           /\ Offset' = Offset + size
    /\ DecimationPattern' = Shr(DecimationPattern, 4)
    /\ wpc' = IF Shr(DecimationPattern, 4) # 0 THEN "walk" ELSE "walked"
    /\ UNCHANGED <<oldVars, wBlockSize, Decimation, SubBlockSize, AnalysisLen,
                   TransientData, nSteps, OverlapScale, WindowCtrl>>

(***************************************************************************)
(* Block_Transform_GetWindowCtrl, older variant (MinOverlap, MaxOverlap)   *)
(***************************************************************************)
OverlapLimits == { Pow2(4), Pow2(7), Pow2(11) }

\* nRatioSegments = 2*BlockSize / RatioSegmentSamples
nRatioSegments(N) == (2 * N) \div 64

\* Decimation = 1, SegmentSize = nRatioSegments / 4, SubBlockSize = BlockSize,
\* RatioBuffer += nRatioSegments/4
OldInit ==
    /\ wpc = "old_descend"
    /\ wBlockSize \in BlockSizes
    /\ MinOverlap \in OverlapLimits
    /\ MaxOverlap \in OverlapLimits
    /\ MinOverlap <= MaxOverlap
    /\ Decimation = 1
    /\ SegmentSize = nRatioSegments(wBlockSize) \div 4
    /\ RatioBuffer = nRatioSegments(wBlockSize) \div 4
    /\ SubBlockSize = wBlockSize
    /\ AnalysisLen = 0 /\ TransientData = 0
    /\ nSteps = 0
    /\ OverlapScale = 0
    /\ WindowCtrl = 0
    /\ WalkIdle

\* "Can we decimate?"
OldCanDecimate(seg, dec, size, min) ==
    ULC_USE_WINDOW_SWITCHING = 1 /\ seg > 1 /\ dec < 8 /\ size > min

\* the largest ratio is in L (bit 0) or M (bit 1) and LogRatio >= 1.0
OldDecimate ==
    /\ wpc = "old_descend"
    /\ OldCanDecimate(SegmentSize, Decimation, SubBlockSize, MinOverlap)
    /\ \E bit \in {0, 1} :
          /\ Decimation' = 2 * Decimation + bit
          /\ RatioBuffer' = IF bit = 1 THEN RatioBuffer + SegmentSize
                            ELSE RatioBuffer
    /\ SegmentSize' = SegmentSize \div 2
    /\ SubBlockSize' = SubBlockSize \div 2
    /\ nSteps' = nSteps + 1
    /\ UNCHANGED <<wpc, wBlockSize, AnalysisLen, TransientData, OverlapScale,
                   WindowCtrl, DecimationPattern, SubBlocks, Offset,
                   MinOverlap, MaxOverlap>>

\* "No more decimation"
OldStopDescent ==
    /\ wpc = "old_descend"
    /\ wpc' = "old_overlap"
    /\ UNCHANGED <<wBlockSize, Decimation, SubBlockSize, AnalysisLen,
                   TransientData, nSteps, OverlapScale, WindowCtrl,
                   DecimationPattern, SubBlocks, Offset, oldVars>>

\* OverlapScale from LogRatio = x4/4 >= 1.0:
\* (LogRatio < 6.5) ? (int)(LogRatio + 0.5) : 7
OldOverlapScaleOf(x4) == IF x4 < 26 THEN (x4 + 2) \div 4 ELSE 7

\* OverlapScale = 0; if(LogRatio >= 1.0f) { ... }
OldSelectOverlap ==
    /\ wpc = "old_overlap"
    /\ \E x4 \in (-MaxLog2Q)..MaxLog2Q :
          IF x4 >= 4
          THEN OverlapScale' = OldOverlapScaleOf(x4) /\ wpc' = "old_lower"
          ELSE OverlapScale' = 0 /\ wpc' = "old_done"
    /\ UNCHANGED <<wBlockSize, Decimation, SubBlockSize, AnalysisLen,
                   TransientData, nSteps, WindowCtrl, DecimationPattern,
                   SubBlocks, Offset, oldVars>>

\* while(OverlapScale > 0 && (SubBlockSize >> OverlapScale) < MinOverlap)
OldTooShort(size, scale, min) == scale > 0 /\ Shr(size, scale) < min

\* while(OverlapScale < 7 && (SubBlockSize >> OverlapScale) > MaxOverlap)
OldTooLong(size, scale, max) == scale < 7 /\ Shr(size, scale) > max

OldLowerOverlap ==
    /\ wpc = "old_lower"
    /\ IF OldTooShort(SubBlockSize, OverlapScale, MinOverlap)
       THEN OverlapScale' = OverlapScale - 1 /\ wpc' = wpc
       ELSE OverlapScale' = OverlapScale /\ wpc' = "old_raise"
    /\ UNCHANGED <<wBlockSize, Decimation, SubBlockSize, AnalysisLen,
                   TransientData, nSteps, WindowCtrl, DecimationPattern,
                   SubBlocks, Offset, oldVars>>

OldRaiseOverlap ==
    /\ wpc = "old_raise"
    /\ IF OldTooLong(SubBlockSize, OverlapScale, MaxOverlap)
       THEN OverlapScale' = OverlapScale + 1 /\ wpc' = wpc
       ELSE OverlapScale' = OverlapScale /\ wpc' = "old_done"
    /\ UNCHANGED <<wBlockSize, Decimation, SubBlockSize, AnalysisLen,
                   TransientData, nSteps, WindowCtrl, DecimationPattern,
                   SubBlocks, Offset, oldVars>>

\* return OverlapScale + 0x8*(Decimation != 1) + 0x10*Decimation
OldReturn ==
    /\ wpc = "old_done"
    /\ WindowCtrl' = PackWindowCtrl(OverlapScale, Decimation)
    /\ wpc' = "ret"
    /\ UNCHANGED <<wBlockSize, Decimation, SubBlockSize, AnalysisLen,
                   TransientData, nSteps, OverlapScale, DecimationPattern,
                   SubBlocks, Offset, oldVars>>

OldNext ==
    \/ OldDecimate
    \/ OldStopDescent
    \/ OldSelectOverlap
    \/ OldLowerOverlap
    \/ OldRaiseOverlap
    \/ OldReturn

(***************************************************************************)
(* Block_Transform_GetLogOverlapScale (MinOverlap, MaxOverlap)             *)
(***************************************************************************)
\* called by Block_Transform with State->BlockSize, State->MinOverlap,
\* State->MaxOverlap; MinOverlap <= BlockSize
LogInit ==
    /\ wpc = "log_overlap"
    /\ wBlockSize \in BlockSizes
    /\ MinOverlap \in OverlapLimits
    /\ MaxOverlap \in OverlapLimits
    /\ MinOverlap <= MaxOverlap
    /\ MinOverlap <= wBlockSize
    /\ Decimation = 1
    /\ SegmentSize = 0 /\ RatioBuffer = 0
    /\ SubBlockSize = wBlockSize
    /\ AnalysisLen = 0 /\ TransientData = 0
    /\ nSteps = 0
    /\ OverlapScale = 0
    /\ WindowCtrl = 0
    /\ WalkIdle

\* OverlapScale = (int)(0x1.715476p0f*logf(Ratio) + 0.25f), any int;
\* if(OverlapScale < 0x0) OverlapScale = 0x0;
\* if(OverlapScale > 0xF) OverlapScale = 0xF
LogSelectOverlap ==
    /\ wpc = "log_overlap"
    /\ \E raw \in (-2)..MaxLog2Q :
          OverlapScale' = IF raw < 0 THEN 0 ELSE IF raw > 15 THEN 15 ELSE raw
    /\ wpc' = "log_lower"
    /\ UNCHANGED <<wBlockSize, Decimation, SubBlockSize, AnalysisLen,
                   TransientData, nSteps, WindowCtrl, DecimationPattern,
                   SubBlocks, Offset, oldVars>>

\* while((BlockSize >> OverlapScale) < MinOverlap)
LogTooShort(size, scale, min) == Shr(size, scale) < min

\* while((BlockSize >> OverlapScale) > MaxOverlap)
LogTooLong(size, scale, max) == Shr(size, scale) > max

LogLowerOverlap ==
    /\ wpc = "log_lower"
    /\ IF LogTooShort(wBlockSize, OverlapScale, MinOverlap)
       THEN OverlapScale' = OverlapScale - 1 /\ wpc' = wpc
       ELSE OverlapScale' = OverlapScale /\ wpc' = "log_raise"
    /\ UNCHANGED <<wBlockSize, Decimation, SubBlockSize, AnalysisLen,
                   TransientData, nSteps, WindowCtrl, DecimationPattern,
                   SubBlocks, Offset, oldVars>>

LogRaiseOverlap ==
    /\ wpc = "log_raise"
    /\ IF LogTooLong(wBlockSize, OverlapScale, MaxOverlap)
       THEN OverlapScale' = OverlapScale + 1 /\ wpc' = wpc
       ELSE OverlapScale' = OverlapScale /\ wpc' = "log_done"
    /\ UNCHANGED <<wBlockSize, Decimation, SubBlockSize, AnalysisLen,
                   TransientData, nSteps, WindowCtrl, DecimationPattern,
                   SubBlocks, Offset, oldVars>>

\* return OverlapScale; State->ThisOverlap = ...
LogReturn ==
    /\ wpc = "log_done"
    /\ wpc' = "log_ret"
    /\ UNCHANGED <<wBlockSize, Decimation, SubBlockSize, AnalysisLen,
                   TransientData, nSteps, OverlapScale, WindowCtrl,
                   DecimationPattern, SubBlocks, Offset, oldVars>>

LogNext ==
    \/ LogSelectOverlap
    \/ LogLowerOverlap
    \/ LogRaiseOverlap
    \/ LogReturn

(***************************************************************************)
(* Block_Transform_InsertKeys                                              *)
(***************************************************************************)
ULC_MAX_QBANDS == 48

NoKey == [Band |-> -1, Chan |-> -1, QBand |-> -1]

\* #define ULC_COEF_EPS (0x1.0p-31f)
ULC_COEF_EPS_Log2 == -31

\* #define ULC_COEF_NEPER_OUT_OF_RANGE 0.0f
ULC_COEF_NEPER_OUT_OF_RANGE == 0

\* Block_Transform_ScaleAndToNepers, for |v| = 2^e, in units of ln 2:
\* Dst[Band] = (ABS(v) < 0.5f*ULC_COEF_EPS) ? ULC_COEF_NEPER_OUT_OF_RANGE
\*                                          : logf(ABS(v))
ScaleAndToNepers(e) ==
    IF e < ULC_COEF_EPS_Log2 - 1 THEN ULC_COEF_NEPER_OUT_OF_RANGE ELSE e

\* the scaled coefficients of a channel: all in range; some or all below
\* the smallest quantization; magnitudes 1/4, 1/2, 1, 2 in turn
CoefProfiles(N) ==
    { [b \in 0..(N - 1) |-> -5],
      [b \in 0..(N - 1) |-> IF b = 0 THEN -33 ELSE 2],
      [b \in 0..(N - 1) |-> IF b < 3 THEN -40 ELSE -32],
      [b \in 0..(N - 1) |-> IF b % 5 = 3 THEN -33 ELSE -1 - b],
      [b \in 0..(N - 1) |-> -33],
      [b \in 0..(N - 1) |-> (b % 4) - 2] }

\* the bands with CoefNp[Band] == ULC_COEF_NEPER_OUT_OF_RANGE
OutOfRange ==
    { b \in DOMAIN InsCoefLog2 :
        ScaleAndToNepers(InsCoefLog2[b]) = ULC_COEF_NEPER_OUT_OF_RANGE }

\* int QBand = 0; float QBandAvg = 0.0f, QBandAvgW = 0.0f; Band = 0
InsInit ==
    /\ ipc = "loop"
    /\ InsBlockSize \in {MaxBands - 4, MaxBands}
    /\ InsChan \in 0..(MaxChan - 1)
    /\ InsCoefLog2 \in CoefProfiles(InsBlockSize)
    /\ InsBand = 0
    /\ InsQBand = 0
    /\ QBandAvgW = 0
    /\ nKeys = InsChan * InsBlockSize
    /\ InsKey = NoKey
    /\ insStep = "none"

InsIdle ==
    /\ ipc = "idle" /\ InsBlockSize = 0 /\ InsChan = 0 /\ InsCoefLog2 = <<>>
    /\ InsBand = 0 /\ InsQBand = 0 /\ QBandAvgW = 0 /\ nKeys = 0
    /\ InsKey = NoKey /\ insStep = "none"

insInputs == <<InsBlockSize, InsChan, InsCoefLog2>>

\* Keys[*nKeys] = {Band, Chan, QBand, Val}; (*nKeys)++
StoreKey(q) ==
    /\ InsKey' = [Band |-> InsBand, Chan |-> InsChan, QBand |-> q]
    /\ nKeys' = nKeys + 1

\* if(ValNp == ULC_COEF_NEPER_OUT_OF_RANGE) continue
InsSkip ==
    /\ ipc = "loop"
    /\ InsBand < InsBlockSize
    /\ InsBand \in OutOfRange
    /\ InsBand' = InsBand + 1
    /\ insStep' = "skip"
    /\ UNCHANGED <<insInputs, ipc, InsQBand, QBandAvgW, nKeys, InsKey>>

\* the value is within QuantRange of the zone's average (always so while
\* QBandAvgW is 0): the band joins the zone
InsKeep ==
    /\ ipc = "loop"
    /\ InsBand < InsBlockSize
    /\ InsBand \notin OutOfRange
    /\ QBandAvgW' = 1
    /\ StoreKey(InsQBand)
    /\ InsBand' = InsBand + 1
    /\ insStep' = "keep"
    /\ UNCHANGED <<insInputs, ipc, InsQBand>>

\* a variant in which a band may be out of range of an empty zone
OutOfZone_Always(w) == TRUE

\* (ValNp + QuantRange)*QBandAvgW < QBandAvg
\* || (ValNp - QuantRange)*QBandAvgW > QBandAvg:
\* false while QBandAvg = QBandAvgW = 0, otherwise as the values decide
OutOfZone(w) == w > 0

CanSplit_OffByOne(q) == q < ULC_MAX_QBANDS

\* if(QBand < ULC_MAX_QBANDS-1)
CanSplit(q) == q < ULC_MAX_QBANDS - 1

\* out of range of the zone's average: split a new quantizer band
InsSplit ==
    /\ ipc = "loop"
    /\ InsBand < InsBlockSize
    /\ InsBand \notin OutOfRange
    /\ OutOfZone(QBandAvgW)
    /\ CanSplit(InsQBand)
    /\ InsQBand' = InsQBand + 1
    /\ QBandAvgW' = 1
    /\ StoreKey(InsQBand + 1)
    /\ InsBand' = InsBand + 1
    /\ insStep' = "split"
    /\ UNCHANGED <<insInputs, ipc>>

\* out of range of the zone's average, no zone left: stay in the last one
InsMerge ==
    /\ ipc = "loop"
    /\ InsBand < InsBlockSize
    /\ InsBand \notin OutOfRange
    /\ OutOfZone(QBandAvgW)
    /\ ~CanSplit(InsQBand)
    /\ QBandAvgW' = 1
    /\ StoreKey(InsQBand)
    /\ InsBand' = InsBand + 1
    /\ insStep' = "merge"
    /\ UNCHANGED <<insInputs, ipc, InsQBand>>

\* for(Band=0;Band<BlockSize;Band++) ends
InsDone ==
    /\ ipc = "loop"
    /\ InsBand >= InsBlockSize
    /\ ipc' = "done"
    /\ insStep' = "none"
    /\ UNCHANGED <<insInputs, InsBand, InsQBand, QBandAvgW, nKeys, InsKey>>

InsNext ==
    \/ InsSkip
    \/ InsKeep
    \/ InsSplit
    \/ InsMerge
    \/ InsDone

(***************************************************************************)
(* Floats, as far as the quantizers tell them apart:                       *)
(*   [k |-> "nan"]                                                         *)
(*   [k |-> "fin", x4 |-> i]   the value i/4                               *)
(*   [k |-> "big", hi |-> h]   a finite value v with sqrtf(v - 0.25f)      *)
(*                             = h * 2^16 >= 2^31                          *)
(*   [k |-> "inf"]             +infinity, or finite with a root >= 2^63    *)
(***************************************************************************)
NaN == [k |-> "nan"]
Inf == [k |-> "inf"]
Fin(i) == [k |-> "fin", x4 |-> i]
Big(h) == [k |-> "big", hi |-> h]

\* largest f in lo..hi with f*f <= m
RECURSIVE FloorSqrt(_, _, _)
FloorSqrt(m, lo, hi) ==
    IF lo >= hi THEN lo
    ELSE LET mid == (lo + hi + 1) \div 2
         IN  IF mid * mid <= m THEN FloorSqrt(m, mid, hi)
             ELSE FloorSqrt(m, lo, mid - 1)

\* lrintf(sqrtf(m/4)): to nearest, halves to even
RintSqrt(m) ==
    LET f == FloorSqrt(m, 0, 2048) \div 2
        t == (2 * f + 1) * (2 * f + 1)
    IN  IF m > t THEN f + 1
        ELSE IF m = t THEN f + (f % 2)
        ELSE f

\* (int) of a long h * 2^16: the low 32 bits, signed
ToInt32(h) ==
    LET lo == h % 65536
    IN  IF lo >= 32768 THEN (lo - 65536) * 65536 ELSE lo * 65536

\* lrintf of a value no long holds; as int: 0 (LONG_MIN) or -1 (LONG_MAX)
LrintOutOfRange == {0, -1}

\* return (v >= 0.5f) ? (int)lrintf(sqrtf(v - 0.25f)) : 0
\* the set of values a build can return
ULC_CompandedQuantizeUnsigned(v) ==
    CASE v.k = "nan" -> {0}
      [] v.k = "fin" -> {IF v.x4 >= 2 THEN RintSqrt(v.x4 - 1) ELSE 0}
      [] v.k = "big" -> {ToInt32(v.hi)}
      [] v.k = "inf" -> LrintOutOfRange

\* return (vq < Limit) ? vq : Limit
ULC_CompandedQuantizeCoefficientUnsigned(v, Limit) ==
    { IF vq < Limit THEN vq ELSE Limit : vq \in ULC_CompandedQuantizeUnsigned(v) }

(***************************************************************************)
(* Block_Encode_EncodePass_GetNoiseQ, Block_Encode_EncodePass_GetHFExtParams*)
(***************************************************************************)
\* what Amplitude*q can be: Amplitude = expf(...) and any float q
AmplitudeSamples ==
    {NaN, Inf} \cup { Fin(i) : i \in (-2)..MaxAmp4 }
    \cup { Big(h) : h \in {49152, 65536, 65537, 98304} }

\* what (Decay-1.0f) * -0x1.0p19f can be for 0 <= Decay < 1
DecaySamples ==
    { Fin(i) : i \in {1, 2, 3, 10, 26, 4 * 254 * 254, 4 * 255 * 255 + 2,
                      4 * 256 * 256, Pow2(21)} }

NoiseTiles ==
    { << [w |-> 1, wy |-> 0],  [w |-> 1, wy |-> 0],  [w |-> 1, wy |-> 0] >>,
      << [w |-> 1, wy |-> 2],  [w |-> 2, wy |-> -2], [w |-> 1, wy |-> 1] >>,
      << [w |-> 2, wy |-> -3], [w |-> 1, wy |-> 3],  [w |-> 3, wy |-> -1] >>,
      << [w |-> 0, wy |-> 0],  [w |-> 0, wy |-> 1],  [w |-> 1, wy |-> -1] >> }

\* N = (N + (Band & 1) + 1) / 2
FixupN(n, band) == (n + (band % 2) + 1) \div 2

\* Data += Band / 2 * 2; the pairs Data[n*2+0], Data[n*2+1], n < N
NoisePairs(data, band, n) ==
    [i \in 1..FixupN(n, band) |-> data[((band \div 2 + i - 1) % Len(data)) + 1]]

\* Sum += wy, SumW += w
NoiseSum(p) == SumSeq([i \in 1..Len(p) |-> p[i].wy])
NoiseSumW(p) == SumSeq([i \in 1..Len(p) |-> p[i].w])

\* Block_Encode_EncodePass_GetHFExtParams_LeastSquares, x = n * 2.0f
LsqSumX(p) == SumSeq([i \in 1..Len(p) |-> p[i].w * (2 * (i - 1))])
LsqSumX2(p) == SumSeq([i \in 1..Len(p) |-> p[i].w * (2 * (i - 1)) * (2 * (i - 1))])
LsqSumXY(p) == SumSeq([i \in 1..Len(p) |-> (2 * (i - 1)) * p[i].wy])
LsqDet(p) == NoiseSumW(p) * LsqSumX2(p) - LsqSumX(p) * LsqSumX(p)
\* the sign of *Decay is that of (SumW*SumXY - SumX*SumY) / Det
LsqDecayNegative(p) ==
    LET num == NoiseSumW(p) * LsqSumXY(p) - LsqSumX(p) * NoiseSum(p)
    IN  (num < 0 /\ LsqDet(p) > 0) \/ (num > 0 /\ LsqDet(p) < 0)

NoiseInputs ==
    /\ NoiseData \in NoiseTiles
    /\ NoiseBand \in 0..MaxNoiseN
    /\ NoiseN \in 1..MaxNoiseN
    /\ ampKind = "none"
    /\ NoiseQ = -1
    /\ NoiseDecay = -1

NoiseQInit == npc = "noiseq" /\ NoiseInputs

HFExtInit == npc = "hfext" /\ NoiseInputs

NoiseIdle ==
    /\ npc = "idle" /\ NoiseData = <<>> /\ NoiseBand = 0 /\ NoiseN = 0
    /\ ampKind = "none" /\ NoiseQ = -1 /\ NoiseDecay = -1

noiseInputs == <<NoiseData, NoiseBand, NoiseN>>

\* if(Sum == 0.0f) return 0
GetNoiseQ_Zero ==
    /\ npc = "noiseq"
    /\ NoiseSum(NoisePairs(NoiseData, NoiseBand, NoiseN)) = 0
    /\ NoiseQ' = 0
    /\ npc' = "noiseq_ret"
    /\ UNCHANGED <<noiseInputs, ampKind, NoiseDecay>>

\* Amplitude = expf(Sum/SumW);
\* return ULC_CompandedQuantizeCoefficientUnsigned(Amplitude*q, 1 + 0x7)
GetNoiseQ_Quantize ==
    /\ npc = "noiseq"
    /\ NoiseSum(NoisePairs(NoiseData, NoiseBand, NoiseN)) # 0
    /\ \E v \in AmplitudeSamples :
          /\ NoiseQ' \in ULC_CompandedQuantizeCoefficientUnsigned(v, 1 + 7)
          /\ ampKind' = v.k
    /\ npc' = "noiseq_ret"
    /\ UNCHANGED <<noiseInputs, NoiseDecay>>

\* if(!..._LeastSquares(...)) { *_NoiseQ = *_NoiseDecay = 0; return; }
GetHFExtParams_Unsolved ==
    /\ npc = "hfext"
    /\ LsqDet(NoisePairs(NoiseData, NoiseBand, NoiseN)) = 0
    /\ NoiseQ' = 0
    /\ NoiseDecay' = 0
    /\ npc' = "hfext_ret"
    /\ UNCHANGED <<noiseInputs, ampKind>>

\* 1 + 0xF
HFExtAmplitudeLimit == 1 + 15

ClampDecay_Off(nd) == nd

\* if(NoiseDecay > 0xFF) NoiseDecay = 0xFF
ClampDecay(nd) == IF nd > 255 THEN 255 ELSE nd

\* Decay = expf(Decay); if(Decay > 1.0f) Decay = 1.0f;
\* NoiseQ     = ULC_CompandedQuantizeCoefficientUnsigned(Amplitude*q*4.0f, 1 + 0xF)
\* NoiseDecay = ULC_CompandedQuantizeUnsigned((Decay-1.0f) * -0x1.0p19f)
GetHFExtParams_Quantize ==
    /\ npc = "hfext"
    /\ LsqDet(NoisePairs(NoiseData, NoiseBand, NoiseN)) # 0
    /\ \E v \in AmplitudeSamples :
          /\ NoiseQ' \in ULC_CompandedQuantizeCoefficientUnsigned(v, HFExtAmplitudeLimit)
          /\ ampKind' = v.k
    /\ \E d \in (IF LsqDecayNegative(NoisePairs(NoiseData, NoiseBand, NoiseN))
                 THEN DecaySamples ELSE {Fin(0)}) :
       \E nd \in ULC_CompandedQuantizeUnsigned(d) :
          NoiseDecay' = ClampDecay(nd)
    /\ npc' = "hfext_ret"
    /\ UNCHANGED noiseInputs

NoiseNext ==
    \/ GetNoiseQ_Zero
    \/ GetNoiseQ_Quantize
    \/ GetHFExtParams_Unsolved
    \/ GetHFExtParams_Quantize

(***************************************************************************)
(* State->WindowCtrl, State->NextWindowCtrl across consecutive blocks      *)
(***************************************************************************)
SeqIdle ==
    StateWindowCtrl = 0 /\ NextWindowCtrl = 0 /\ RightOverlap = 0 /\ LeftOverlap = 0

\* the shift of the sub-block flagged transient (bit 3) in a pattern
RECURSIVE TransientShift(_)
TransientShift(pat) ==
    IF (pat \div 8) % 2 = 1 \/ pat = 0 THEN pat % 8
    ELSE TransientShift(Shr(pat, 4))

OverlapLength_WholeBlock(ctrl, size) == Shr(size, ctrl % 8)

\* overlap length a window control word stands for: the transient
\* sub-block's size >> overlap scale
OverlapLength(ctrl, size) ==
    Shr(Shr(size, TransientShift(ULC_SubBlockDecimationPattern(ctrl))), ctrl % 8)

\* the block is done: State->NextWindowCtrl takes the word
\* Block_Transform_GetWindowCtrl returned
StoreNextWindowCtrl ==
    /\ wpc = "ret"
    /\ NextWindowCtrl' = WindowCtrl
    /\ RightOverlap' = Shr(SubBlockSize, OverlapScale)
    /\ wpc' = "stored"
    /\ UNCHANGED <<oldVars, wBlockSize, Decimation, SubBlockSize, AnalysisLen,
                   TransientData, nSteps, OverlapScale, WindowCtrl,
                   DecimationPattern, SubBlocks, Offset,
                   StateWindowCtrl, LeftOverlap>>

\* the next block begins: State->WindowCtrl = State->NextWindowCtrl, and
\* Block_Transform_GetWindowCtrl is entered again
CarryWindowCtrl ==
    /\ wpc = "stored"
    /\ StateWindowCtrl' = NextWindowCtrl
    /\ LeftOverlap' = OverlapLength(NextWindowCtrl, wBlockSize)
    /\ wpc' = "descend"
    /\ Decimation' = 1
    /\ SubBlockSize' = wBlockSize
    /\ AnalysisLen' = ULC_HELPER_SUBBLOCK_INTERLEAVE_MODULO
    /\ TransientData' = ULC_HELPER_SUBBLOCK_INTERLEAVE_MODULO
    /\ nSteps' = 0
    /\ OverlapScale' = 0
    /\ WindowCtrl' = 0
    /\ UNCHANGED <<oldVars, wBlockSize, DecimationPattern, SubBlocks, Offset,
                   NextWindowCtrl, RightOverlap>>

SeqNext ==
    \/ (Decimate \/ StopDescent \/ SelectOverlap \/ ReduceOverlap \/ Return)
          /\ UNCHANGED seqVars
    \/ StoreNextWindowCtrl
    \/ CarryWindowCtrl

(***************************************************************************)
(* The sliding analysis windows of                                         *)
(* Block_Transform_CalculatePsychoacoustics (main and noise window) and    *)
(* Block_Transform_CalculateNoiseLogSpectrum (mask window).                *)
(* A window is [Beg, End, In, SumW, Sum, SumNp, Adv, Lost]: the two        *)
(* fixed-point edges, the samples that were added and not removed, the     *)
(* three running sums, the last advance of the lower edge, and whether a   *)
(* sample was removed that had not been added.                             *)
(***************************************************************************)
MinSlideLog2 == 4
MaxSlideLog2 == 6

SlideSizes == { Pow2(k) : k \in MinSlideLog2..MaxSlideLog2 }

RateSamples == {8000, 32000, 44100, 48000, 96000}

\* Energy[n] / Weight[n]: (v <= 1.0f) ? 1 : ... (uint32_t)v
Energy(d, n) ==
    IF d = "peak" THEN (IF n = 0 THEN 4095 ELSE 1)
    ELSE (IF n % 3 = 1 THEN 4095 ELSE 1 + n)

\* EnergyNp[n]: (v <= 1.0f) ? 0 : (uint32_t)(logf(v) * LogNorm)
EnergyNp(d, n) ==
    IF d = "peak" THEN (IF n = 0 THEN 1024 ELSE 0)
    ELSE (IF n % 3 = 1 THEN 1024 ELSE (7 * n) % 11)

\* s = (2*16000.0f) / RateHz; if(s >= 1.0f) s = 0x1.FFFFFEp-1f;
\* LoRangeScale = (int)floorf((1<<RangeScaleFxp) * s)
LoRangeScale_Unclipped(rate) == (256 * 32000) \div rate

LoRangeScale(rate) ==
    IF 32000 >= rate THEN 255 ELSE (256 * 32000) \div rate

\* s = RateHz / (2*22000.0f); if(s < 1.0f) s = 1.0f;
\* HiRangeScale = (int)ceilf((1<<RangeScaleFxp) * s)
HiRangeScale(rate) ==
    IF rate < 44000 THEN 256 ELSE (256 * rate + 43999) \div 44000

EmptyWindow ==
    [Beg |-> 0, End |-> 0, In |-> {}, SumW |-> 0, Sum |-> 0, SumNp |-> 0,
     Adv |-> 0, Lost |-> FALSE]

RECURSIVE SumOver(_, _, _)
SumOver(S, d, what) ==
    IF S = {} THEN 0
    ELSE LET n == Min(S)
             v == IF what = "W" THEN Energy(d, n)
                  ELSE IF what = "Np" THEN EnergyNp(d, n)
                  ELSE Energy(d, n) * EnergyNp(d, n)
         IN  v + SumOver(S \ {n}, d, what)

\* "Remove samples that went out of focus", "Add samples that came into
\* focus"; a sum below 0 stands for the wrapped value of the unsigned sum
Refocus(w, fxp, lo, hi, size, d) ==
    LET Old1 == Shr(w.Beg, fxp)
        New1 == Shr(w.Beg + lo, fxp)
        rem  == IF Old1 < New1 THEN {Old1} ELSE {}
        Old2 == Shr(w.End, fxp)
        raw  == Shr(w.End + hi, fxp)
        New2 == IF raw > size THEN size ELSE raw
        add  == IF Old2 < New2 THEN Old2..(New2 - 1) ELSE {}
    IN  [Beg   |-> w.Beg + lo,
         End   |-> w.End + hi,
         In    |-> (w.In \ rem) \cup add,
         SumW  |-> w.SumW - SumOver(rem, d, "W") + SumOver(add, d, "W"),
         Sum   |-> w.Sum - SumOver(rem, d, "WNp") + SumOver(add, d, "WNp"),
         SumNp |-> w.SumNp - SumOver(rem, d, "Np") + SumOver(add, d, "Np"),
         Adv   |-> New1 - Old1,
         Lost  |-> w.Lost \/ rem \ w.In # {}]

SlideIdle ==
    /\ spc = "idle" /\ sRate = 0 /\ sSize = 0 /\ sData = "none" /\ sBand = 0
    /\ MainWin = EmptyWindow /\ NoiseWin = EmptyWindow /\ MaskWin = EmptyWindow
    /\ FloorBw = 0

\* BandBeg = BandEnd = 0, Sum = SumW = 0, NoiseBeg = NoiseEnd = 0, ...
SlideInit ==
    /\ \/ spc = "psycho" /\ sRate = 0
       \/ spc = "floor" /\ sRate \in RateSamples
    /\ sSize \in SlideSizes
    /\ sData \in {"silent", "peak", "mixed"}
    /\ sBand = 0
    /\ MainWin = EmptyWindow /\ NoiseWin = EmptyWindow /\ MaskWin = EmptyWindow
    /\ FloorBw = 0

\* one pass of for(n=0;n<SubBlockSize;n++) of a sub-block with Norm != 0
PsychoBand ==
    /\ spc = "psycho"
    /\ sData # "silent"
    /\ sBand < sSize
    /\ MainWin' = Refocus(MainWin, 5, 29, 45, sSize, sData)
    /\ NoiseWin' = Refocus(NoiseWin, 4, 15, 20, sSize, sData)
    /\ sBand' = sBand + 1
    /\ UNCHANGED <<spc, sRate, sSize, sData, MaskWin, FloorBw>>

\* one pass of for(n=0;n<N;n++) after Norm != 0
FloorBand ==
    /\ spc = "floor"
    /\ sData # "silent"
    /\ sBand < sSize
    /\ LET w == Refocus(MaskWin, 8, LoRangeScale(sRate), HiRangeScale(sRate),
                        sSize, sData)
       IN  /\ MaskWin' = w
           /\ FloorBw' = Shr(w.End, 8) - Shr(w.Beg, 8)
    /\ sBand' = sBand + 1
    /\ UNCHANGED <<spc, sRate, sSize, sData, MainWin, NoiseWin>>

\* Norm == 0.0f (nothing is analysed), or the loop has run to its end
SlideEnd ==
    /\ spc \in {"psycho", "floor"}
    /\ sData = "silent" \/ sBand >= sSize
    /\ spc' = "done"
    /\ UNCHANGED <<sRate, sSize, sData, sBand, MainWin, NoiseWin, MaskWin,
                   FloorBw>>

SlideNext ==
    \/ PsychoBand
    \/ FloorBand
    \/ SlideEnd

(***************************************************************************)
(* Block_Transform_GetWindowCtrl_TransientFiltering, block after block.    *)
(* Samples are integers; the filtered energy and the taps are in units of  *)
(* 1/256, roots and products with the decay constants rounded down.        *)
(***************************************************************************)
MaxFiltBlocks == 2

FiltSizes == {128, 256}

DataProfiles(N) ==
    { [n \in 0..(N - 1) |-> 0],
      [n \in 0..(N - 1) |-> IF n = N \div 2 THEN 8 ELSE 0],
      [n \in 0..(N - 1) |-> 2 * (n % 4)],
      [n \in 0..(N - 1) |-> IF n >= N - 3 THEN 4 ELSE 0] }

\* the struct Dst[i] lies over StepBuffer[2*i] (Sum) and StepBuffer[2*i+1] (SumW)
StepBufferLen(N) == N \div 2

\* #define BPFILT(zM1, z0, z1) ((z1) - (zM1)), squared;
\* s is the index of SrcNew[0] in the new block, -1 for SrcOld[0]
SqrBpFilt(old, new, N, s) ==
    LET zM1 == IF s < 0 THEN old[N - 2] ELSE new[s]
    IN  (new[s + 2] - zM1) * (new[s + 2] - zM1)

\* *Dst for sample n of the new block (nChan = 1)
BandpassEnergy(old, new, N, n) ==
    LET s == 4 * n - 1
        three == SqrBpFilt(old, new, N, s) + SqrBpFilt(old, new, N, s + 1)
                 + SqrBpFilt(old, new, N, s + 2)
    IN  IF n = N \div 4 - 1 THEN (three * 4) \div 3
        ELSE three + SqrBpFilt(old, new, N, s + 3)

\* float LPTap = SmoothingTaps[0], DCTap = SmoothingTaps[1]
StartTaps_Cold(taps) == <<0, 0>>

StartTaps(taps) == taps

\* one turn of the smoothing loop on the energy e:
\* v = sqrtf(*Buf); LPTap += v*(1-LPDecay); v = LPTap; LPTap *= LPDecay;
\* DCTap += v*(1-DCDecay); v = ABS(v - DCTap); DCTap *= DCDecay; *Buf++ = v
SmoothStep(e, taps) ==
    LET v0 == FloorSqrt(e, 0, 64)
        lp == taps[1] + v0 * 16
        dc == taps[2] + (lp * 4) \div 256
    IN  [v |-> IF lp >= dc THEN lp - dc ELSE dc - lp,
         taps |-> <<(lp * 240) \div 256, (dc * 252) \div 256>>]

\* the loop over the energies es (a sequence), from the taps given
RECURSIVE Smooth(_, _, _)
Smooth(es, taps, out) ==
    IF es = <<>> THEN [out |-> out, taps |-> taps]
    ELSE LET r == SmoothStep(Head(es), taps)
         IN  Smooth(Tail(es), r.taps, Append(out, r.v))

FiltQuarter == FiltSize \div 4

FiltIdle ==
    /\ fpc = "idle" /\ fBlock = 0 /\ FiltSize = 0 /\ FiltData = <<>>
    /\ LastBlockData = <<>> /\ TransientWindow = <<>>
    /\ SmoothingTaps = <<>> /\ StepBuffer = <<>> /\ fEnergy = <<>>

\* a new encoder: no samples before the first block, taps at rest;
\* StepBuffer is scratch and holds anything
FiltInit ==
    /\ fpc = "call" /\ fBlock = 0
    /\ FiltSize \in FiltSizes
    /\ FiltData \in DataProfiles(FiltSize)
    /\ LastBlockData = [n \in 0..(FiltSize - 1) |-> 0]
    /\ TransientWindow = [n \in 0..(FiltSize \div 4 - 1) |-> 0]
    /\ SmoothingTaps = <<0, 0>>
    /\ \E g \in {0, 77} : StepBuffer = [n \in 0..(StepBufferLen(FiltSize) - 1) |-> g]
    /\ fEnergy = <<>>

\* for(n=0;n<BlockSize/4;n++) StepBuffer[n] = TransientWindow[n]
FiltRestore ==
    /\ fpc = "call"
    /\ StepBuffer' = [n \in DOMAIN StepBuffer |->
                         IF n < FiltQuarter THEN TransientWindow[n] ELSE StepBuffer[n]]
    /\ fpc' = "restored"
    /\ UNCHANGED <<fBlock, FiltSize, FiltData, LastBlockData, TransientWindow,
                   SmoothingTaps, fEnergy>>

\* StepBuffer[n+BlockSize/4] = 0.0f; *Dst += SQR(BPFILT(...)) ...
FiltEnergy ==
    /\ fpc = "restored"
    /\ StepBuffer' = [n \in DOMAIN StepBuffer |->
                         IF n >= FiltQuarter
                         THEN BandpassEnergy(LastBlockData, FiltData, FiltSize,
                                             n - FiltQuarter)
                         ELSE StepBuffer[n]]
    /\ fEnergy' = fEnergy \o [i \in 1..FiltQuarter |->
                                 BandpassEnergy(LastBlockData, FiltData, FiltSize, i - 1)]
    /\ fpc' = "energy"
    /\ UNCHANGED <<fBlock, FiltSize, FiltData, LastBlockData, TransientWindow,
                   SmoothingTaps>>

\* the smoothing loop; SmoothingTaps[0] = LPTap; SmoothingTaps[1] = DCTap
FiltSmooth ==
    /\ fpc = "energy"
    /\ LET r == Smooth([i \in 1..FiltQuarter |-> StepBuffer[FiltQuarter + i - 1]],
                       StartTaps(SmoothingTaps), <<>>)
       IN  /\ StepBuffer' = [n \in DOMAIN StepBuffer |->
                                IF n >= FiltQuarter THEN r.out[n - FiltQuarter + 1]
                                ELSE StepBuffer[n]]
           /\ SmoothingTaps' = r.taps
    /\ fpc' = "smoothed"
    /\ UNCHANGED <<fBlock, FiltSize, FiltData, LastBlockData, TransientWindow,
                   fEnergy>>

\* StepBuffer[BlockSize/4+n]
SavedSample_Restored(buf, quarter, n) == buf[n]

SavedSample(buf, quarter, n) == buf[quarter + n]

\* for(n=0;n<BlockSize/4;n++) TransientWindow[n] = StepBuffer[BlockSize/4+n]
FiltSave ==
    /\ fpc = "smoothed"
    /\ TransientWindow' = [n \in 0..(FiltQuarter - 1) |->
                              SavedSample(StepBuffer, FiltQuarter, n)]
    /\ fpc' = "saved"
    /\ UNCHANGED <<fBlock, FiltSize, FiltData, LastBlockData, SmoothingTaps,
                   StepBuffer, fEnergy>>

\* Tmp.SumW += w, Tmp.Sum += w*ULC_FastLnApprox(d) over one analysis interval
\* (the logarithm to its integer part, base 2)
EntropySum(buf, i, len, what) ==
    SumSeq([k \in 1..len |->
               LET d == buf[i * len + k - 1]
               IN  IF what = "SumW" THEN d * d ELSE d * d * IntLog2(d)])

\* the entropy accumulator: *Dst++ = Tmp for each of the
\* ULC_HELPER_SUBBLOCK_INTERLEAVE_MODULO*4 intervals, over StepBuffer itself
FiltAccumulate ==
    /\ fpc = "saved"
    /\ LET len == (FiltSize \div 2) \div (ULC_HELPER_SUBBLOCK_INTERLEAVE_MODULO * 4)
       IN  StepBuffer' = [n \in DOMAIN StepBuffer |->
               IF n < 2 * ULC_HELPER_SUBBLOCK_INTERLEAVE_MODULO * 4
               THEN EntropySum(StepBuffer, n \div 2, len,
                               IF n % 2 = 0 THEN "Sum" ELSE "SumW")
               ELSE StepBuffer[n]]
    /\ fBlock' = fBlock + 1
    /\ fpc' = "ret"
    /\ UNCHANGED <<FiltSize, FiltData, LastBlockData, TransientWindow,
                   SmoothingTaps, fEnergy>>

\* the next block: the same State buffers are handed to the next call and
\* the block just analysed becomes LastBlockData
FiltNextBlock ==
    /\ fpc = "ret"
    /\ fBlock < MaxFiltBlocks
    /\ FiltData' \in DataProfiles(FiltSize)
    /\ LastBlockData' = FiltData
    /\ fpc' = "call"
    /\ UNCHANGED <<fBlock, FiltSize, TransientWindow, SmoothingTaps, StepBuffer,
                   fEnergy>>

FiltNext ==
    \/ FiltRestore
    \/ FiltEnergy
    \/ FiltSmooth
    \/ FiltSave
    \/ FiltAccumulate
    \/ FiltNextBlock

(***************************************************************************)
(* ULC_CompandedQuantizeUnsigned, one call                                 *)
(***************************************************************************)
QuantIdle == qpc = "idle" /\ quantV = NaN /\ quantRet = -1

\* float v: any value of AmplitudeSamples
QuantInit == qpc = "call" /\ quantV \in AmplitudeSamples /\ quantRet = -1

\* return (v >= 0.5f) ? (int)lrintf(sqrtf(v - 0.25f)) : 0
QuantizeUnsigned ==
    /\ qpc = "call"
    /\ quantRet' \in ULC_CompandedQuantizeUnsigned(quantV)
    /\ qpc' = "ret"
    /\ UNCHANGED quantV

ExtIdle == SlideIdle /\ QuantIdle /\ FiltIdle

AuxIdle == InsIdle /\ NoiseIdle /\ SeqIdle /\ ExtIdle

WinNext ==
    \/ Decimate
    \/ StopDescent
    \/ SelectOverlap
    \/ ReduceOverlap
    \/ Return
    \/ StartWalk
    \/ WalkSubBlock

\* the sub-block loop entered with any coded window control word
PatInit ==
    /\ wpc = "ret"
    /\ wBlockSize \in BlockSizes
    /\ WindowCtrl \in 16..255
    /\ Decimation = 0 /\ SubBlockSize = 0 /\ AnalysisLen = 0
    /\ TransientData = 0 /\ nSteps = 0 /\ OverlapScale = 0
    /\ WalkIdle
    /\ OldIdle

PatNext ==
    \/ StartWalk
    \/ WalkSubBlock

WinIdle ==
    /\ wpc = "idle" /\ wBlockSize = 0 /\ Decimation = 0 /\ SubBlockSize = 0
    /\ AnalysisLen = 0 /\ TransientData = 0 /\ nSteps = 0
    /\ OverlapScale = 0 /\ WindowCtrl = 0
    /\ WalkIdle
    /\ OldIdle

Init == EncInit /\ WinIdle /\ AuxIdle

Next == EncNext /\ UNCHANGED <<winVars, auxVars>>

Spec == Init /\ [][Next]_vars

InitWin == EncIdle /\ WinInit /\ AuxIdle

NextWin == WinNext /\ UNCHANGED <<encVars, auxVars>>

SpecWin == InitWin /\ [][NextWin]_vars

InitPat == EncIdle /\ PatInit /\ AuxIdle

NextPat == PatNext /\ UNCHANGED <<encVars, auxVars>>

SpecPat == InitPat /\ [][NextPat]_vars

\* both variants of Block_Transform_GetWindowCtrl
InitCtrl == EncIdle /\ (WinInit \/ OldInit) /\ AuxIdle

NextCtrl == (WinNext \/ OldNext) /\ UNCHANGED <<encVars, auxVars>>

SpecCtrl == InitCtrl /\ [][NextCtrl]_vars

\* the function runs to its return: every loop pass is taken in turn
SpecCtrlLive == InitCtrl /\ [][NextCtrl]_vars /\ WF_vars(NextCtrl)

\* the overlap selectors that take MinOverlap and MaxOverlap
InitLap == EncIdle /\ (OldInit \/ LogInit) /\ AuxIdle

NextLap == (OldNext \/ LogNext) /\ UNCHANGED <<encVars, auxVars>>

SpecLap == InitLap /\ [][NextLap]_vars

\* each function runs to its return
SpecLapLive == InitLap /\ [][NextLap]_vars /\ WF_vars(NextLap)

InitIns == EncIdle /\ WinIdle /\ InsInit /\ NoiseIdle /\ SeqIdle /\ ExtIdle

NextIns ==
    InsNext /\ UNCHANGED <<encVars, winVars, noiseVars, seqVars, extVars>>

SpecIns == InitIns /\ [][NextIns]_vars

InitNoise ==
    /\ EncIdle /\ WinIdle /\ InsIdle /\ SeqIdle /\ ExtIdle
    /\ (NoiseQInit \/ HFExtInit)

NextNoise ==
    NoiseNext /\ UNCHANGED <<encVars, winVars, insVars, seqVars, extVars>>

SpecNoise == InitNoise /\ [][NextNoise]_vars

\* consecutive blocks, each running Block_Transform_GetWindowCtrl
InitSeq == EncIdle /\ WinInit /\ AuxIdle

NextSeq == SeqNext /\ UNCHANGED <<encVars, insVars, noiseVars, extVars>>

SpecSeq == InitSeq /\ [][NextSeq]_vars

InitSlide ==
    /\ EncIdle /\ WinIdle /\ InsIdle /\ NoiseIdle /\ SeqIdle
    /\ SlideInit /\ QuantIdle /\ FiltIdle

NextSlide ==
    /\ SlideNext
    /\ UNCHANGED <<encVars, winVars, insVars, noiseVars, seqVars, quantVars,
                   filtVars>>

SpecSlide == InitSlide /\ [][NextSlide]_vars

InitQuant ==
    /\ EncIdle /\ WinIdle /\ InsIdle /\ NoiseIdle /\ SeqIdle
    /\ SlideIdle /\ QuantInit /\ FiltIdle

NextQuant ==
    /\ QuantizeUnsigned
    /\ UNCHANGED <<encVars, winVars, insVars, noiseVars, seqVars, slideVars,
                   filtVars>>

SpecQuant == InitQuant /\ [][NextQuant]_vars

InitFilt ==
    /\ EncIdle /\ WinIdle /\ InsIdle /\ NoiseIdle /\ SeqIdle
    /\ SlideIdle /\ QuantIdle /\ FiltInit

NextFilt ==
    /\ FiltNext
    /\ UNCHANGED <<encVars, winVars, insVars, noiseVars, seqVars, slideVars,
                   quantVars>>

SpecFilt == InitFilt /\ [][NextFilt]_vars


(***************************************************************************)
(* Properties                                                              *)
(***************************************************************************)
Returned == wpc \in {"ret", "walk", "walked"}

TwosComp4(m) == IF m >= 0 THEN m ELSE 16 + m

\* the nybble the last WriteNybble call left in the destination
LastNybbleInDst == DstBuffer[((Size - 4) \div 8) + 1] \div 16

RECURSIVE PopCount(_)
PopCount(x) == IF x = 0 THEN 0 ELSE (x % 2) + PopCount(x \div 2)

\* the destination bytes touched by a run of Block_Encode that makes the
\* WriteNybble calls nyb into a destination whose bytes all held g
RECURSIVE WriteAll(_, _, _)
WriteAll(nyb, g, buf) ==
    IF nyb = <<>> THEN buf
    ELSE IF Len(nyb) = 1 THEN Append(buf, PushNybble(g, nyb[1]))
    ELSE WriteAll(Tail(Tail(nyb)), g,
                  Append(buf, PushNybble(PushNybble(g, nyb[1]), nyb[2])))

OtherRun(g) ==
    ShiftDownFinalByte(WriteAll(nybbles, g, <<>>), Len(nybbles) \div 2,
                       4 * Len(nybbles))

\* C1: the size in bits of an encoded block never exceeds
\* 8 + nChan*(12 + 20*(BlockSize-1))
C1_MaxBlockBits == Size <= 8 + nChan * (12 + 20 * (BlockSize - 1))

C1_Witness == pc = "done" /\ nChan = 2 /\ nNzCoded >= 2 /\ Size >= 64

\* C2: the running bit count is a multiple of 4 after every step: it is
\* 4 bits per nybble written so far
C2_SizeMultipleOf4 == Size % 4 = 0 /\ Size = 4 * Len(nybbles)

C2_Witness == pc = "done" /\ Size % 8 = 4 /\ lastCode.kind = "none"

\* C3: a nybble written as a coefficient is the 4-bit two's complement of a
\* quantized value in -7..+7, and is never the escape nybble 8
C3_CoefNybble ==
    lastCode.kind = "coef" =>
        /\ lastCode.Qn \in (-7)..7
        /\ LastNybbleInDst = TwosComp4(lastCode.Qn)
        /\ nybbles[Len(nybbles)] = LastNybbleInDst
        /\ LastNybbleInDst # 8

C3_Witness == lastCode.kind = "coef" /\ lastCode.Qn = -7 /\ LastNybbleInDst = 9

\* C4: an escape-coded zero run is 8,x with x in 1..B and an even length
\* 2x+2 in 4..24, or 8,x,Y with x in C..F and an even length
\* 26+2*(16*(x-C)+Y) in 26..152; a zero outside an escape is one nybble
C4_ZeroRunLengths ==
    /\ lastCode.kind = "zrun" =>
          LET L == Len(nybbles)
              x == nybbles[L - lastCode.n + 2]
          IN  /\ nybbles[L - lastCode.n + 1] = 8
              /\ lastCode.len % 2 = 0
              /\ \/ /\ lastCode.n = 2
                    /\ x \in 1..11
                    /\ lastCode.len = 2 * x + 2
                    /\ lastCode.len \in 4..24
                 \/ /\ lastCode.n = 3
                    /\ x \in 12..15
                    /\ lastCode.len = 26 + 2 * (16 * (x - 12) + nybbles[L])
                    /\ lastCode.len \in 26..152
    /\ (lastCode.kind = "coef" /\ lastCode.Qn = 0) =>
          (lastCode.len = 1 /\ nybbles[Len(nybbles)] = 0)

C4_Witness == lastCode.kind = "zrun" /\ lastCode.len = 152 /\ zR >= 4

\* C5: output byte k is n(2k) | n(2k+1) << 4, and after the block a last
\* lone nybble sits in the low 4 bits of its byte, the high 4 bits zero
C5_NybblePacking ==
    /\ \A k \in 0..((Size \div 8) - 1) :
          DstBuffer[k + 1] = nybbles[2 * k + 1] + 16 * nybbles[2 * k + 2]
    /\ (pc = "done" /\ Size % 8 # 0) =>
          DstBuffer[Len(DstBuffer)] = nybbles[Len(nybbles)]

C5_Witness ==
    pc = "done" /\ Size % 8 = 4 /\ Size >= 20 /\ DstGarbage # 0
    /\ nybbles[Len(nybbles)] # 0

\* C6: for every decimation code 1..15 the sub-blocks read from the pattern
\* have sizes BlockSize >> shift, shift in 0..3, follow one another from 0
\* and sum to BlockSize
C6_SubBlocksPartition ==
    /\ \A i \in 1..Len(SubBlocks) :
          /\ SubBlocks[i].shift \in 0..3
          /\ SubBlocks[i].size = Shr(wBlockSize, SubBlocks[i].shift)
          /\ SubBlocks[i].start =
                SumSeq([j \in 1..(i - 1) |-> SubBlocks[j].size])
    /\ Offset <= wBlockSize
    /\ wpc = "walked" => Offset = wBlockSize

C6_Witness ==
    wpc = "walked" /\ Shr(WindowCtrl, 4) = 11 /\ Len(SubBlocks) = 4

\* C7: for every decimation code d in 1..15 exactly one sub-block is
\* flagged transient, and it is the sub-block of index popcount(d) - 1
C7_TransientIndex ==
    wpc = "walked" =>
        /\ Cardinality({i \in 1..Len(SubBlocks) : SubBlocks[i].transient = 1}) = 1
        /\ PopCount(Shr(WindowCtrl, 4)) <= Len(SubBlocks)
        /\ SubBlocks[PopCount(Shr(WindowCtrl, 4))].transient = 1

C7_Witness ==
    wpc = "walked" /\ Shr(WindowCtrl, 4) = 14 /\ SubBlocks[3].transient = 1

\* C8 as stated: the low nybble of the window control word holds the
\* decimation pattern and the high nybble the overlap scale
C8_Original ==
    Returned =>
        /\ WindowCtrl % 16 = Decimation
        /\ Shr(WindowCtrl, 4) % 8 = OverlapScale

\* C8 amended: bits 0-3 of the window control word hold the overlap scale
\* (with the decimate flag) and bits 4-7 the decimation pattern, which is
\* the index ULC_SubBlockDecimationPattern looks up
C8_NybbleLayout ==
    /\ Returned =>
          /\ WindowCtrl < 256
          /\ Shr(WindowCtrl, 4) = Decimation
          /\ (WindowCtrl % 16) % 8 = OverlapScale
    /\ (wpc = "walk" /\ SubBlocks = <<>>) =>
          DecimationPattern = Pattern[Decimation + 1]

C8_Witness ==
    wpc = "walk" /\ SubBlocks = <<>> /\ Decimation = 6 /\ OverlapScale = 1

\* C9: in the nybble carrying the overlap scale, bits 0-2 are the overlap
\* scale, in 0..7, and bit 3 is set iff the decimation pattern is not 0001
C9_OverlapNybble ==
    Returned =>
        /\ OverlapScale \in 0..7
        /\ (WindowCtrl % 16) % 8 = OverlapScale
        /\ ((WindowCtrl % 16) \div 8 = 1) <=> (Decimation # 1)

C9_Witness ==
    wpc = "ret" /\ Decimation # 1 /\ OverlapScale = 7 /\ WindowCtrl % 16 = 15
    /\ MinOverlap > 0

\* C10: the overlap scale stays in 0..7 while it is reduced, and the
\* overlap length chosen, SubBlockSize >> OverlapScale, is at least 16 and
\* at most SubBlockSize
C10_OverlapLength ==
    /\ wpc = "reduce" => OverlapScale \in 0..7
    /\ Returned =>
          /\ OverlapScale \in 0..7
          /\ Shr(SubBlockSize, OverlapScale) >= 16
          /\ Shr(SubBlockSize, OverlapScale) <= SubBlockSize

C10_Witness ==
    wpc = "ret" /\ wBlockSize = 512 /\ SubBlockSize = 64 /\ OverlapScale = 2

\* C11: the binary descent of Block_Transform_GetWindowCtrl (both variants)
\* ends, takes at most three decimation steps, never leaves a sub-block
\* smaller than 64 samples, and the decimation code returned is in 1..15
\* (popcount >= 1), whatever the block size and the ratio outcomes
C11_DescentTerminates ==
    /\ [](/\ nSteps <= 3
          /\ SubBlockSize >= 64
          /\ SubBlockSize * Pow2(nSteps) = wBlockSize
          /\ Decimation \in 1..15
          /\ Returned =>
                /\ Shr(WindowCtrl, 4) = Decimation
                /\ Shr(WindowCtrl, 4) \in 1..15
                /\ PopCount(Shr(WindowCtrl, 4)) >= 1)
    /\ <>(wpc \notin {"descend", "old_descend"})

C11_Witness ==
    wpc = "ret" /\ nSteps = 3 /\ SubBlockSize = 64 /\ Shr(WindowCtrl, 4) = 15

\* C12: Block_Transform_InsertKeys gives a channel at most ULC_MAX_QBANDS
\* (48) quantizer zones: QBand, and the QBand stored in every key, are in
\* 0..ULC_MAX_QBANDS-1, and with the budget used up a band out of range of
\* the zone's average is keyed into the last zone
C12_ZoneBudget ==
    /\ InsQBand \in 0..(ULC_MAX_QBANDS - 1)
    /\ InsQBand + 1 <= 48
    /\ InsKey # NoKey =>
          /\ InsKey.QBand \in 0..(ULC_MAX_QBANDS - 1)
          /\ InsKey.QBand = InsQBand
    /\ insStep = "merge" =>
          /\ InsQBand = ULC_MAX_QBANDS - 1
          /\ InsKey.QBand = ULC_MAX_QBANDS - 1

C12_Witness ==
    insStep = "merge" /\ InsKey.QBand = 47 /\ InsKey.Band > 48 /\ InsChan = 1

\* C13 as stated: Block_Encode_EncodePass_GetNoiseQ returns an integer in
\* 0..8 for every band, width and scale q, and 0 when the weighted
\* log-amplitude sum over the band is zero
C13_Original ==
    npc = "noiseq_ret" =>
        /\ NoiseQ \in 0..8
        /\ NoiseSum(NoisePairs(NoiseData, NoiseBand, NoiseN)) = 0 => NoiseQ = 0

\* C13, where it holds: the same, for every scale q that leaves
\* sqrtf(Amplitude*q - 0.25f) below 2^31, so that its rounding fits an int
C13_NoiseQRange ==
    (npc = "noiseq_ret" /\ ampKind \in {"none", "nan", "fin"}) =>
        /\ NoiseQ \in 0..8
        /\ NoiseSum(NoisePairs(NoiseData, NoiseBand, NoiseN)) = 0 => NoiseQ = 0

C13_Witness == npc = "noiseq_ret" /\ ampKind = "fin" /\ NoiseQ = 8

C13_Overflow == npc = "noiseq_ret" /\ ampKind = "big" /\ NoiseQ < 0

C15_OverlapCarried ==
    /\ (LeftOverlap # 0 /\ wpc # "stored") =>
          /\ LeftOverlap = RightOverlap
          /\ StateWindowCtrl = NextWindowCtrl
          /\ LeftOverlap = OverlapLength(StateWindowCtrl, wBlockSize)
    /\ wpc = "stored" => RightOverlap = OverlapLength(NextWindowCtrl, wBlockSize)

C15_Witness ==
    wpc = "ret" /\ LeftOverlap = 16 /\ Shr(StateWindowCtrl, 4) = 13
    /\ WindowCtrl # StateWindowCtrl

\* C16 (as stated): with no coefficient kept, the finished block is, for
\* every channel, the quantizer header followed by the stop code 8h,0h
C16_Original ==
    (pc = "done" /\ Keys = <<>>) =>
        /\ Len(nybbles) = nChan * (nQuants + 2)
        /\ \A c \in 0..(nChan - 1) :
              /\ nybbles[c * (nQuants + 2) + nQuants + 1] = 8
              /\ nybbles[c * (nQuants + 2) + nQuants + 2] = 0

\* C16: with no coefficient kept (no key, every quantizer band unused) the
\* encoder never enters the coefficient loop, and the finished block is, for
\* every channel, the quantizer header alone: one nybble Fh per quantizer
\* band and no stop code
C16_EmptyBlock ==
    (pc # "idle" /\ Keys = <<>>) =>
        /\ pc \in {"quants", "run", "final", "done"}
        /\ \A c \in 0..(nChan - 1), b \in 1..nQuants :
              Quants[c][b] = QUANTIZER_UNUSED
        /\ \A i \in 1..Len(nybbles) : nybbles[i] = 15
        /\ nNzCoded = 0
        /\ pc \in {"final", "done"} =>
              /\ Len(nybbles) = nChan * nQuants
              /\ Size = 4 * nChan * nQuants

C16_Witness ==
    pc = "done" /\ Keys = <<>> /\ nChan = 2 /\ nQuants = 4 /\ Size = 32
    /\ DstBuffer = <<255, 255, 255, 255>>

\* C17: the size returned and the first ceil(Size/8) bytes written are those
\* of a second run from the same state and inputs into a destination that
\* held any other bytes (every hex digit, in both halves of the byte)
\* before the call
C17_Deterministic ==
    pc = "done" =>
        /\ Size = 4 * Len(nybbles)
        /\ Len(DstBuffer) = (Size + 7) \div 8
        /\ \A h \in 0..15 : OtherRun(17 * h) = DstBuffer

C17_Witness ==
    pc = "done" /\ DstGarbage = 165 /\ Size % 8 = 4 /\ nNzCoded >= 2
    /\ OtherRun(0) = DstBuffer

\* C18: every zero-run code advances NextNz by the length its nybbles stand
\* for (2x+2 for 8,x; 26+2*(16*(x-Ch)+Y) for 8,x,Y), which is at most the
\* gap zR left before the keyed band; the run loop goes on while 4 or more
\* positions are left and hands the last 0..3 positions, and the keyed one,
\* to the coefficient loop, which writes one nybble per position
C18_ZeroRunExact ==
    /\ [](/\ pc = "zrun" => (zR >= 4 /\ zR = tBand - NextNz)
          /\ pc = "coef" => tBand - NextNz \in 0..3
          /\ lastCode.kind = "zrun" => (zR >= 0 /\ zR = tBand - NextNz))
    /\ [][lastCode'.kind = "zrun" =>
             LET L   == Len(nybbles')
                 len == IF lastCode'.n = 2 THEN 2 * nybbles'[L] + 2
                        ELSE 26 + 2 * (16 * (nybbles'[L - 1] - 12) + nybbles'[L])
             IN  /\ pc = "zrun"
                 /\ Len(nybbles') = Len(nybbles) + lastCode'.n
                 /\ nybbles'[L - lastCode'.n + 1] = 8
                 /\ len <= zR
                 /\ NextNz' = NextNz + len
                 /\ zR' = zR - len
                 /\ pc' = IF zR' >= 4 THEN "zrun" ELSE "coef"]_vars
    /\ [][pc = "coef" =>
             /\ lastCode'.kind = "coef"
             /\ Len(nybbles') = Len(nybbles) + 1
             /\ NextNz' = NextNz + 1]_vars

C18_Witness ==
    lastCode.kind = "zrun" /\ lastCode.len = 152 /\ zR = 3 /\ pc = "coef"
    /\ tBand = NextNz + 3

\* C19: inside a run of consecutive coded quantizer bands the write position
\* NextNz never passes the run's end LastNz, so n = LastNz - NextNz is not
\* negative when the run is closed; closing the run writes nothing when
\* n = 0, the nybble 0h when n = 1, and the nybbles 8h,0h when n >= 2
C19_RunClosed ==
    /\ [](pc \in {"key", "zrun", "coef", "stop"} => NextNz <= LastNz)
    /\ [][pc = "stop" =>
             LET n == LastNz - NextNz
             IN  /\ n >= 0
                 /\ n = 0 => nybbles' = nybbles
                 /\ n = 1 => nybbles' = nybbles \o <<0>>
                 /\ n >= 2 => nybbles' = nybbles \o <<8, 0>>
                 /\ Size' = Size + 4 * (Len(nybbles') - Len(nybbles))
                 /\ NextNz' = NextNz /\ LastNz' = LastNz]_vars

C19_Witness ==
    lastCode.kind = "stop" /\ LastNz - NextNz = 1 /\ lastCode.n = 1
    /\ nybbles[Len(nybbles)] = 0 /\ nybbles[Len(nybbles) - 1] # 0

\* C20: when the coefficient at a position has just been quantized,
\* CurQuantBand is the quantizer band whose range holds that position,
\* CurQuantEnd is that band's end and the band is a coded one: the one-step
\* advance is enough, for key sets in which every coded band holds a key
C20_CurQuantBand ==
    lastCode.kind = "coef" =>
        /\ CurQuantBand + 1 = BandOf(QuantsBw, NextNz - 1)
        /\ CurQuantEnd = BandStart(QuantsBw, CurQuantBand + 2)
        /\ Quants[Chan][CurQuantBand + 1] # QUANTIZER_UNUSED
        /\ \A b \in 1..nQuants :
              Quants[Chan][b] # QUANTIZER_UNUSED =>
                 \E k \in 1..nNzBands :
                    /\ KeyChan(Keys[k]) = Chan
                    /\ BandOf(QuantsBw, KeyBand(Keys[k])) = b

C20_Witness ==
    /\ lastCode.kind = "coef" /\ BlockSize = 256 /\ nQuants = 4
    /\ NextNz = 67 /\ tBand = 66 /\ CurQuantBand = 2 /\ CurQuantEnd = 128
    /\ nybbles[Len(nybbles) - 3] = 8 /\ nybbles[Len(nybbles) - 2] = 12

\* C21: Keys[Key] is read only with Key < nNzBands: whenever the key loop is
\* about to unpack a key, in any channel and any run of coded quantizer
\* bands, a key is left; with no key at all the key loop is never entered
C21_KeyInBounds ==
    /\ pc = "key" => Key < nNzBands
    /\ pc \in {"zrun", "coef"} =>
          (Key < nNzBands /\ tBand = KeyBand(Keys[Key + 1])
           /\ KeyChan(Keys[Key + 1]) = Chan)
    /\ Key <= nNzBands
    /\ (nNzBands = 0 /\ pc # "idle") => pc \in {"quants", "run", "final", "done"}

C21_Witness ==
    pc = "key" /\ Chan = 1 /\ Key = nNzBands - 1 /\ Key >= 2
    /\ lastCode.kind = "none" /\ NextNz > 0

\* C22: at every step of the descent SubBlockSize is BlockSize >> (number of
\* decimation bits appended), and the sub-block ULC_SubBlockDecimationPattern
\* flags as transient for the returned code has that size and lies where
\* the appended bits (0 = L, 1 = M) lead: the overlap scale is computed for
\* the size of the transient sub-block
C22_TransientSubBlock ==
    /\ nSteps = IntLog2(Decimation)
    /\ SubBlockSize = Shr(wBlockSize, nSteps)
    /\ wpc = "walked" =>
          /\ SumSeq([i \in 1..Len(SubBlocks) |-> SubBlocks[i].transient]) = 1
          /\ \A i \in 1..Len(SubBlocks) :
                SubBlocks[i].transient = 1 =>
                   /\ SubBlocks[i].size = SubBlockSize
                   /\ SubBlocks[i].start = (Decimation - Pow2(nSteps)) * SubBlockSize
                   /\ Shr(SubBlocks[i].size, WindowCtrl % 8)
                         = Shr(SubBlockSize, OverlapScale)

C22_Witness ==
    /\ wpc = "walked" /\ wBlockSize = 1024 /\ Decimation = 6
    /\ SubBlockSize = 256 /\ Len(SubBlocks) = 3
    /\ SubBlocks[2].transient = 1 /\ SubBlocks[2].start = 512

\* C23: at every step of the descent the groups LL, L, M, R (AnalysisLen
\* segments each, from TransientData - AnalysisLen) lie inside the
\* 4*ULC_HELPER_SUBBLOCK_INTERLEAVE_MODULO accumulated segments, and after
\* a decimation the new L and M are the first and the second half of the
\* group (L or M) the step selected
C23_SegmentGroups ==
    /\ [](wpc # "idle" =>
             /\ AnalysisLen >= 1
             /\ TransientData - AnalysisLen >= 0
             /\ TransientData + 3 * AnalysisLen
                   <= 4 * ULC_HELPER_SUBBLOCK_INTERLEAVE_MODULO)
    /\ [][Decimation' # Decimation =>
             LET bit == Decimation' - 2 * Decimation
                 lo  == TransientData + bit * AnalysisLen
                 hi  == lo + AnalysisLen
             IN  /\ bit \in {0, 1}
                 /\ TransientData' = lo
                 /\ TransientData' + 2 * AnalysisLen' = hi
                 /\ AnalysisLen' >= 1]_vars

C23_Witness ==
    wpc = "ret" /\ Decimation = 13 /\ AnalysisLen = 1 /\ TransientData = 18

\* C24: within one channel the zone index stored with the first key is 0,
\* each later key has the zone index of the key before it or that index
\* plus 1, and a key that opens a zone never comes while the zone in use is
\* empty; so every zone 0..QBand holds a key and is a contiguous band range
C24_ZonesContiguous ==
    /\ [](ipc # "idle" =>
             /\ InsKey = NoKey => (InsQBand = 0 /\ QBandAvgW = 0)
             /\ InsKey # NoKey => (InsKey.QBand = InsQBand /\ QBandAvgW > 0))
    /\ [][nKeys' # nKeys =>
             /\ nKeys' = nKeys + 1
             /\ InsKey'.QBand = InsQBand'
             /\ InsKey'.QBand \in {InsQBand, InsQBand + 1}
             /\ InsKey = NoKey => InsKey'.QBand = 0
             /\ QBandAvgW = 0 => InsKey'.QBand = InsQBand
             /\ InsKey # NoKey =>
                   /\ InsKey'.Band > InsKey.Band
                   /\ InsKey'.QBand - InsKey.QBand \in {0, 1}]_vars

C24_Witness ==
    /\ insStep = "split" /\ InsKey.QBand = 2 /\ InsKey.Band = 9
    /\ 3 \in OutOfRange /\ 8 \in OutOfRange /\ nKeys = InsChan * InsBlockSize + 8

\* C25 (as stated): a band gets exactly one key if its scaled magnitude is
\* at least 0.5*ULC_COEF_EPS and no key otherwise, so that the channel ends
\* with one key per coefficient in range, whatever its magnitude
C25_Original ==
    /\ insStep = "skip" => InsCoefLog2[InsBand - 1] < ULC_COEF_EPS_Log2 - 1
    /\ insStep \in {"keep", "split", "merge"} =>
          /\ InsCoefLog2[InsBand - 1] >= ULC_COEF_EPS_Log2 - 1
          /\ InsKey.Band = InsBand - 1
    /\ ipc = "done" =>
          nKeys - InsChan * InsBlockSize =
             Cardinality({b \in 0..(InsBlockSize - 1) :
                             InsCoefLog2[b] >= ULC_COEF_EPS_Log2 - 1})

\* C25, as the code has it: a band gets exactly one key if its CoefNp is not
\* ULC_COEF_NEPER_OUT_OF_RANGE (0.0f), that is if its scaled magnitude is at
\* least 0.5*ULC_COEF_EPS and is not 1.0, whose logarithm is 0.0f as well
C25_KeyPerBand ==
    /\ insStep = "skip" =>
          (InsCoefLog2[InsBand - 1] < ULC_COEF_EPS_Log2 - 1
           \/ InsCoefLog2[InsBand - 1] = 0)
    /\ insStep \in {"keep", "split", "merge"} =>
          /\ InsCoefLog2[InsBand - 1] >= ULC_COEF_EPS_Log2 - 1
          /\ InsCoefLog2[InsBand - 1] # 0
          /\ InsKey.Band = InsBand - 1
    /\ ipc = "done" =>
          nKeys - InsChan * InsBlockSize =
             Cardinality({b \in 0..(InsBlockSize - 1) :
                             /\ InsCoefLog2[b] >= ULC_COEF_EPS_Log2 - 1
                             /\ InsCoefLog2[b] # 0})

\* a coefficient of scaled magnitude 1.0 passed over without a key
C25_Dropped ==
    /\ insStep = "skip" /\ InsBand = 3 /\ InsCoefLog2[2] = 0
    /\ nKeys = InsChan * InsBlockSize + 2 /\ InsKey.Band = 1

\* C26: at every band n of a non-silent sub-block each sliding window holds
\* the samples lower..upper-1 with lower <= n < upper, its lower edge has
\* moved by at most one sample, no sample was subtracted that had not been
\* added (the unsigned sums are the sums over the window, none wrapped), and
\* the divisors SumW, MaskSumW and FloorBw are at least 1
C26_SlidingWindows ==
    (spc \in {"psycho", "floor"} /\ sBand >= 1) =>
        LET n == sBand - 1
            Good(w, fxp) ==
                /\ w.In = Shr(w.Beg, fxp)..(Min({Shr(w.End, fxp), sSize}) - 1)
                /\ n \in w.In
                /\ w.Adv \in {0, 1}
                /\ ~w.Lost
                /\ w.SumW = SumOver(w.In, sData, "W")
                /\ w.Sum = SumOver(w.In, sData, "WNp")
                /\ w.SumNp = SumOver(w.In, sData, "Np")
                /\ w.SumW >= 1
        IN  /\ spc = "psycho" => (Good(MainWin, 5) /\ Good(NoiseWin, 4))
            /\ spc = "floor" => (Good(MaskWin, 8) /\ FloorBw >= 1)

C26_Witness ==
    /\ spc = "floor" /\ sRate = 8000 /\ sSize = 64 /\ sBand = 64
    /\ MaskWin.Adv = 1 /\ MaskWin.In = {63} /\ FloorBw = 1

\* C29 (as stated): at every band FloorBw is the number of samples summed in
\* FloorSum, the bands inside the mask window, also where the window's
\* upper edge is clipped to N
C29_Original ==
    (spc = "floor" /\ sBand >= 1) =>
        /\ MaskWin.SumNp = SumOver(MaskWin.In, sData, "Np")
        /\ FloorBw = Cardinality(MaskWin.In)

\* C29, as the code has it: FloorSum is the sum of EnergyNp over the bands
\* inside the mask window; FloorBw is their number as long as
\* NoiseEnd >> RangeScaleFxp is not above N, and exceeds it by
\* (NoiseEnd >> RangeScaleFxp) - N where the upper edge is clipped
C29_FloorBandwidth ==
    (spc = "floor" /\ sBand >= 1) =>
        LET over == Shr(MaskWin.End, 8) - sSize
        IN  /\ MaskWin.SumNp = SumOver(MaskWin.In, sData, "Np")
            /\ over <= 0 => FloorBw = Cardinality(MaskWin.In)
            /\ over > 0 => FloorBw = Cardinality(MaskWin.In) + over

\* a band whose window is clipped: 22 samples summed, FloorBw = 28
C29_Overcount ==
    /\ spc = "floor" /\ sRate = 48000 /\ sSize = 64 /\ sBand = 64
    /\ Cardinality(MaskWin.In) = 22 /\ FloorBw = 28

\* |k*k - v| in quarter units, v = x4/4
SqErr(k, x4) == IF 4 * k * k >= x4 THEN 4 * k * k - x4 ELSE x4 - 4 * k * k

\* the k with 0.5 + (k-1)*k <= v < 0.5 + k*(k+1), v = x4/4
NearestSquareHalfUp(x4) ==
    IF x4 < 2 THEN 0
    ELSE CHOOSE k \in 1..(FloorSqrt(x4, 0, 2048) \div 2 + 1) :
            4 * k * (k - 1) + 2 <= x4 /\ x4 < 4 * k * (k + 1) + 2

\* v = 0.5 + k*(k+1) for an integer k >= 0, v = x4/4
IsMidpoint(x4) == x4 >= 2 /\ x4 = 4 * (NearestSquareHalfUp(x4) - 1) * NearestSquareHalfUp(x4) + 2

\* C27 as stated: for every v >= 0 whose root an int holds,
\* ULC_CompandedQuantizeUnsigned(v) is the k whose square is nearest to v,
\* k+1 as soon as v >= 0.5 + k*(k+1); so 0.5 itself already returns 1.
C27_Original ==
    qpc = "ret" /\ quantV.k = "fin" /\ quantV.x4 >= 0
        => quantRet = NearestSquareHalfUp(quantV.x4)

\* C27, where it holds: the value returned is a non-negative integer no other
\* integer's square is nearer to v than; it is k+1 for v > 0.5 + k*(k+1) and
\* k for v < 0.5 + k*(k+1); at v = 0.5 + k*(k+1) exactly it is the even one
\* of k and k+1, so 0.5 returns 0.
C27_NearestSquare ==
    qpc = "ret" /\ quantV.k = "fin" /\ quantV.x4 >= 0
        => /\ quantRet >= 0
           /\ \A j \in 0..(quantRet + 2) :
                 SqErr(quantRet, quantV.x4) <= SqErr(j, quantV.x4)
           /\ IF IsMidpoint(quantV.x4)
              THEN /\ quantRet % 2 = 0
                   /\ quantRet \in {NearestSquareHalfUp(quantV.x4) - 1,
                                    NearestSquareHalfUp(quantV.x4)}
              ELSE quantRet = NearestSquareHalfUp(quantV.x4)

\* v = 0.5 returns 0
C27_HalfToZero == qpc = "ret" /\ quantV = Fin(2) /\ quantRet = 0

\* the low-pass and DC-removal filters run from rest over the energy samples
\* of every block so far, as one stream
StreamFiltered == Smooth(fEnergy, <<0, 0>>, <<>>)

\* C28: after each call of the transient filter TransientWindow holds the
\* BlockSize/4 filtered energy samples of the block just analysed and
\* SmoothingTaps the final low-pass and DC-removal taps; the next call starts
\* its analysis samples with that window and its filters from those taps, so
\* that filtering block by block equals filtering the whole stream.
C28_FilterCarried ==
    LET r == StreamFiltered
        tail == SubSeq(r.out, Len(fEnergy) - FiltQuarter + 1, Len(fEnergy))
        window == [i \in 1..FiltQuarter |-> TransientWindow[i - 1]]
        first == [i \in 1..FiltQuarter |-> StepBuffer[i - 1]]
        second == [i \in 1..FiltQuarter |-> StepBuffer[FiltQuarter + i - 1]]
    IN  /\ fpc = "saved"
            => window = tail /\ window = second /\ SmoothingTaps = r.taps
        /\ fpc = "restored" /\ fBlock >= 1
            => first = tail /\ window = tail /\ SmoothingTaps = r.taps

\* a silent block after a block of tone: what is saved is above zero only
\* through the taps carried
C28_Witness ==
    /\ fpc = "saved" /\ fBlock = 1 /\ FiltSize = 128
    /\ \A n \in DOMAIN FiltData : FiltData[n] = 0
    /\ LastBlockData[FiltSize - 1] = 6
    /\ fEnergy[Len(fEnergy)] = 0
    /\ StepBuffer[FiltQuarter - 1] > 0
    /\ TransientWindow[FiltQuarter - 1] > 0
    /\ SmoothingTaps[1] > 0 /\ SmoothingTaps[2] > 0

\* the overlap length selected: sub-block size >> OverlapScale
\* (the whole block for Block_Transform_GetLogOverlapScale)
LapLength == Shr(SubBlockSize, OverlapScale)

\* C30 as stated: with MinOverlap <= the sub-block size, both selectors
\* leave an overlap length in [MinOverlap, MaxOverlap], whatever the ratio
C30_Original ==
    wpc \in {"old_done", "log_done"} /\ MinOverlap <= SubBlockSize
        => MinOverlap <= LapLength /\ LapLength <= MaxOverlap

\* C30, where it holds: Block_Transform_GetLogOverlapScale always selects a
\* length in [MinOverlap, MaxOverlap]; the older Block_Transform_GetWindowCtrl
\* selects a length >= MinOverlap, and <= MaxOverlap when the ratio reached
\* the transient threshold and MaxOverlap is at least 1/128 of the sub-block;
\* each adjusting loop moves OverlapScale one way within its limits, and the
\* functions return.
C30_OverlapLimits ==
    /\ [](/\ wpc = "log_done"
              => MinOverlap <= LapLength /\ LapLength <= MaxOverlap
          /\ wpc = "old_done" /\ MinOverlap <= SubBlockSize
              => MinOverlap <= LapLength
          /\ wpc \in {"old_lower", "old_raise", "old_done"} => OverlapScale \in 0..7
          /\ wpc \in {"log_lower", "log_raise", "log_done"} => OverlapScale \in 0..15)
    /\ [][/\ wpc = "old_raise" /\ wpc' = "old_done"
                 /\ MinOverlap <= SubBlockSize /\ SubBlockSize <= 128 * MaxOverlap
              => LapLength' <= MaxOverlap
          /\ wpc \in {"old_lower", "log_lower"} /\ wpc' = wpc
              => OverlapScale' = OverlapScale - 1
          /\ wpc \in {"old_raise", "log_raise"} /\ wpc' = wpc
              => OverlapScale' = OverlapScale + 1]_vars
    /\ <>(wpc \in {"ret", "log_ret"})

\* the older variant below the transient threshold: the whole sub-block
C30_Unclamped ==
    /\ wpc = "old_done" /\ OverlapScale = 0 /\ nSteps = 0
    /\ SubBlockSize = Pow2(MinBlockLog2 + 2) /\ MinOverlap = 16 /\ MaxOverlap = 128

=============================================================================
